---------------------------- MODULE Spec2Model ----------------------------
(***************************************************************************)
(* A model of the alex entity component system: the archetype storage,     *)
(* the entity directory, the access tokens handed to systems and the       *)
(* parallel schedule.  Every part has a specification of its own           *)
(* (SpecSched and SpecSchedLive, SpecLists, SpecAccess, SpecWorld,         *)
(* SpecWorldInsert, SpecEntities, SpecStorage, SpecSyncPush, SpecSpawn,    *)
(* SpecGrants, SpecLock and SpecLockLive, SpecLayout, SpecChunkSizes);     *)
(* the variables of the other parts stay at their idle values.             *)
(***************************************************************************)
EXTENDS Integers, Sequences, FiniteSets, TLC

VARIABLES
    \* ---- Schedule::execute_rayon (src/src/schedule.rs)
    systems,      \* Schedule.systems: the accessors, in add-order
    frontier,     \* per archetype: ArchetypeNodeAccess {nodes, access_types}
    nodes,        \* the nodes built so far: {signals, access_types}
    waits,        \* Node.waits, the atomic counters
    task,         \* per node: where its spawned task is
    sigpos,       \* per node: position of its task in `for signal in &node.signals`
    scopeidx,     \* node_index of the loop inside pool.scope
    phase,        \* "add" (add_system), "build" (the graph), "run" (pool.scope)
    cells,        \* the component values of the world the systems run on
    \* ---- ArchetypeAccess / WorldAccess (src/src/access.rs)
    tokens,       \* the live WorldAccess tokens: per archetype an access list
    issued,       \* the component iterators handed out so far
    lastop,       \* what the last operation was given and what it returned
    reborrows,    \* the reborrows still alive, innermost last
    \* ---- World / Archetype (src/src/world.rs, src/src/archetype/mod.rs)
    array,        \* Archetypes.array
    set_to_archetype, \* Archetypes.set_to_archetype
    inserted,     \* history: what each returned entity was inserted with
    \* ---- Entities (src/src/entity.rs); World.entities in SpecWorld
    entries,      \* Entities.entries: generation and location per index
    free,         \* Entities.free (SyncPop), popped at the end
    slow_entries, \* Entities.slow_entries
    droplist,     \* Entities.drop (SyncPush)
    handles,      \* history: every handle spawn has returned, with its location
    dropped,      \* history: handles passed to drop and drained by a maintenance
    \* ---- ArchetypeStorage (src/src/archetype/storage.rs)
    storage,      \* one ArchetypeStorage: len, chunks, places_cache and its rows
    \* ---- SyncPush / SyncPop under threads (src/src/util/sync.rs, `parallel`)
    pushq,        \* a SyncPush: ptr (the array), len (the atomic), cap, slow
    popq,         \* the atomic len and the cap of Entities.free during a tick
    threads,      \* per thread: where it is in push or spawn_with, and its locals
    synclog,      \* history: the calls made, what they returned, the last drain
    \* ---- the counting ArchetypeAccess (src/src/query/access.rs, src/src/async.rs)
    granted,      \* the archetype, the build and the memory at `granted`
    refs,         \* the references borrowed and not yet dropped
    \* ---- AsyncLock (src/src/util/async.rs)
    lock,         \* AsyncLock: state (the atomic) and wakers (the queue)
    tasks         \* per task: where it is in a poll or a drop, and what it holds

schedVars == <<systems, frontier, nodes, waits, task, sigpos, scopeidx, phase, cells>>
accVars == <<tokens, issued, lastop, reborrows>>
worldVars == <<array, set_to_archetype, inserted>>
entVars == <<entries, free, slow_entries, droplist, handles, dropped>>
storeVars == <<storage>>
syncVars == <<pushq, popq, threads, synclog>>
asyncVars == <<granted, refs, lock, tasks>>
vars == <<schedVars, accVars, worldVars, entVars, storeVars, syncVars, asyncVars, asyncVars>>

(***************************************************************************)
(* Bounds of the model.                                                    *)
(***************************************************************************)
MaxSystems == 3       \* systems added to a schedule
MaxOps == 3           \* operations applied to access tokens
MaxInserts == 3       \* World::insert calls
MaxSpawns == 3        \* Entities::spawn / spawn_mut calls
MaxDrops == 2         \* Entities::drop calls (a slot's generation stays below 2 + MaxDrops)
ChunkCapacity == 2    \* rows per chunk (ArchetypeInfo.chunk_capacity)
InitialFree == 1      \* Entities::new(initial_free, _)
MaxLen == 3           \* entries of the access lists given to the list functions
MaxThreads == 3       \* threads calling SyncPush::push or Entities::spawn at once
MaxPushes == 4        \* SyncPush::push calls
MaxCapacity == 2      \* SyncPush::new(capacity)
UsizeBits == 3        \* bits of the atomic counters (usize::BITS, scaled down)

(***************************************************************************)
(* Program constants.                                                      *)
(***************************************************************************)
SizeOfUsize == 8      \* size_of::<usize>(), the back-index column's element
FirstGeneration == 1  \* Generation::new() and GenerationCounter::new()

\* What a read of memory no write has filled, or that writes have torn, gives.
Garbage == 0 - 2

\* Option::None of an index, an offset or a component value (all >= 0).
None == 0 - 1
Read == "Read"
Write == "Write"
Access == {Read, Write}

\* ComponentIds are ordered by TypeId; the model's are 1 (T), 2 (U), 3 (V).
T == 1
U == 2
V == 3
Components == {T, U, V}

\* Layout::new::<T>().size() of the three component types.
LayoutSize(c) == c

Range(s) == {s[i] : i \in DOMAIN s}
Min2(a, b) == IF a < b THEN a ELSE b
Max2(a, b) == IF a < b THEN b ELSE a

\* iter.position(pred) over the slice [from..] of a vector: the 0-based
\* index in the slice of the first element pred holds of, or None.  `hit`
\* is pred mapped over the vector.
PositionFrom(hit, from) ==
    LET idx == {i \in (from + 1)..Len(hit) : hit[i]}
    IN IF idx = {} THEN None
       ELSE (CHOOSE i \in idx : \A j \in idx : i <= j) - (from + 1)

\* Vec::swap_remove(index), index 1-based here.
SwapRemove(s, i) ==
    IF i = Len(s) THEN SubSeq(s, 1, Len(s) - 1)
    ELSE [k \in 1..(Len(s) - 1) |-> IF k = i THEN s[Len(s)] ELSE s[k]]

\* Vec::insert(index, x), index 0-based as in the source.
InsertAt(s, i, x) == SubSeq(s, 1, i) \o <<x>> \o SubSeq(s, i + 1, Len(s))

\* slice::sort / sort_by_key: a stable sort by an integer key.  `keys` is
\* the key mapped over s; F[n] is the sorted order of the first n positions.
SortByKey(s, keys) ==
    LET F[n \in 0..Len(s)] ==
            IF n = 0 THEN <<>>
            ELSE LET rest == F[n - 1]
                     k == Cardinality({i \in 1..Len(rest) : keys[rest[i]] <= keys[n]})
                 IN SubSeq(rest, 1, k) \o <<n>> \o SubSeq(rest, k + 1, Len(rest))
    IN [i \in 1..Len(s) |-> s[F[Len(s)][i]]]

\* Vec::dedup: drops an element equal to the one before it.
Dedup(s) ==
    LET keep == {i \in 1..Len(s) : i = 1 \/ s[i] # s[i - 1]}
        F[i \in 0..Len(s)] ==
            IF i = 0 THEN <<>>
            ELSE IF i \in keep THEN Append(F[i - 1], s[i]) ELSE F[i - 1]
    IN F[Len(s)]

(***************************************************************************)
(* ArchetypeInfo (src/src/archetype/mod.rs).                               *)
(***************************************************************************)
\* ArchetypeInfo::new(components): the components are given sorted; every
\* column starts at chunk_capacity times the entity-relative offset, the
\* first column being the back-index of usize.
ArchetypeInfo_new(components) ==
    LET off[i \in 0..Len(components)] ==
            IF i = 0 THEN SizeOfUsize
            ELSE off[i - 1] + LayoutSize(components[i])
    IN [chunk_capacity |-> ChunkCapacity,
        components |-> [i \in 1..Len(components) |->
            [id |-> components[i],
             offset |-> ChunkCapacity * (off[i] - LayoutSize(components[i]))]]]

\* ArchetypeInfo::is(components)
ArchetypeInfo_is(info, components) ==
    /\ \A i \in 1..Len(info.components) :
          i <= Len(components) /\ info.components[i].id = components[i]
    /\ Len(components) <= Len(info.components)

\* ArchetypeInfo::has(component)
ArchetypeInfo_has(info, component) ==
    \E i \in 1..Len(info.components) : info.components[i].id = component

\* ArchetypeInfo::component_offset(component): the first match, or None.
ArchetypeInfo_component_offset(info, component) ==
    LET idx == {i \in 1..Len(info.components) : info.components[i].id = component}
    IN IF idx = {} THEN None
       ELSE info.components[CHOOSE i \in idx : \A j \in idx : i <= j].offset

\* ArchetypeInfo::split_entity_index(index)
ArchetypeInfo_split_entity_index(info, index) ==
    <<index \div info.chunk_capacity, index % info.chunk_capacity>>

(***************************************************************************)
(* Accessors (src/src/access.rs, src/src/read.rs, src/src/write.rs,        *)
(* src/src/filter.rs).  An accessor is a tuple of read / write / try_read  *)
(* / try_write requests, possibly under with / without filters.            *)
(***************************************************************************)
Req(c, a) == [component |-> c, access |-> a]
Acc(reqs) == [reqs |-> reqs, with |-> {}, without |-> {}]
FilteredAcc(reqs, with, without) == [reqs |-> reqs, with |-> with, without |-> without]

\* ComponentAccess::read / ComponentAccess::write.  The source returns
\* None when component_offset does (`?`): here the offset is None then.
ComponentAccess_of(info, req) ==
    [component |-> req.component, access |-> req.access,
     offset |-> ArchetypeInfo_component_offset(info, req.component)]

\* A filter that accepts every archetype.
Filter_filter_archetype_always(accessor, info) == TRUE

\* With / Without / Filtered as Filter: all the filters of the stack pass.
Filter_filter_archetype(accessor, info) ==
    /\ \A c \in accessor.with : ArchetypeInfo_has(info, c)
    /\ \A c \in accessor.without : ~ArchetypeInfo_has(info, c)

\* Accessor::access_types of a (filtered) tuple: the chained accesses of
\* its parts, nothing when the filter rejects the archetype.
Accessor_access_types(accessor, info) ==
    IF ~Filter_filter_archetype(accessor, info) THEN <<>>
    ELSE LET F[i \in 0..Len(accessor.reqs)] ==
                 IF i = 0 THEN <<>>
                 ELSE IF ComponentAccess_of(info, accessor.reqs[i]).offset = None
                      THEN F[i - 1]
                      ELSE Append(F[i - 1], ComponentAccess_of(info, accessor.reqs[i]))
         IN F[Len(accessor.reqs)]

(***************************************************************************)
(* Schedule (src/src/schedule.rs).                                         *)
(***************************************************************************)
\* access_ord with the two values exchanged.
access_ord_read_first(access) == IF access = Read THEN 0 ELSE 1

\* access_ord of sort_dedup_access_types: Write sorts before Read.
access_ord(access) == IF access = Read THEN 1 ELSE 0

\* sort_dedup_access_types: sort by (component, access_ord), then retain
\* the first entry of every component.
sort_dedup_access_types(list) ==
    LET sorted == SortByKey(list, [i \in DOMAIN list |->
                          2 * list[i].component + access_ord(list[i].access)])
        F[i \in 0..Len(sorted)] ==
            IF i = 0 THEN <<>>
            ELSE IF i > 1 /\ sorted[i - 1].component = sorted[i].component
                 THEN F[i - 1]
                 ELSE Append(F[i - 1], sorted[i])
    IN F[Len(sorted)]

\* AnySystem::access_types for (A, F)
AnySystem_access_types(accessor, info) ==
    sort_dedup_access_types(Accessor_access_types(accessor, info))

\* merge_access_types, were it to fail whatever it is given.
merge_access_types_failing(existing, merge) == [ok |-> FALSE, existing |-> merge]

\* merge_access_types(existing, merge): the result and what `existing`
\* has become.  `offset` is the source's cursor into `existing`.
merge_access_types(existing, merge) ==
    LET F[i \in 0..Len(merge)] ==
            IF i = 0 THEN [existing |-> existing, offset |-> 0, ok |-> TRUE]
            ELSE LET st == F[i - 1]
                     next == merge[i]
                     index == PositionFrom([e \in DOMAIN st.existing |->
                                      st.existing[e].component >= next.component],
                                  st.offset)
                 IN IF ~st.ok THEN st
                    ELSE IF index = None
                    THEN [existing |-> Append(st.existing, next),
                          offset |-> Len(st.existing) + 1, ok |-> TRUE]
                    ELSE IF st.existing[index + st.offset + 1].component = next.component
                    THEN IF st.existing[index + st.offset + 1].access = Read
                            /\ next.access = Read
                         THEN [st EXCEPT !.offset = @ + 1]
                         ELSE [existing |-> merge, offset |-> st.offset, ok |-> FALSE]
                    ELSE [existing |-> InsertAt(st.existing, st.offset + index, next),
                          offset |-> st.offset + index + 1, ok |-> TRUE]
    IN [ok |-> F[Len(merge)].ok, existing |-> F[Len(merge)].existing]

\* The archetypes of the world schedules and tokens are built on: the empty archetype
\* World::new creates, then {T} and {T, U}.
FixedWorld == << <<>>, <<T>>, <<T, U>> >>
FixedInfo(a) == ArchetypeInfo_new(FixedWorld[a])
FixedArchetypes == 1..Len(FixedWorld)

\* The accessors systems are added with.
SchedAccessors ==
    { Acc(<<Req(T, Read), Req(U, Read)>>),
      Acc(<<Req(T, Write)>>),
      Acc(<<Req(U, Write)>>),
      Acc(<<Req(T, Read)>>),
      Acc(<<Req(U, Read), Req(U, Write)>>),
      Acc(<<Req(T, Read), Req(U, Write)>>),
      FilteredAcc(<<Req(T, Write)>>, {U}, {}),
      FilteredAcc(<<Req(T, Write)>>, {}, {U}) }

\* One pass of `for system in &mut self.systems` for the system at
\* position k: its intents, the frontiers after merging them, and the
\* nodes it waits for (sorted, deduplicated).  Nodes are numbered from 1.
PlaceIntents(k) ==
    [a \in FixedArchetypes |-> AnySystem_access_types(systems[k], FixedInfo(a))]

PlaceMerged(k) ==
    [a \in FixedArchetypes |->
        merge_access_types(frontier[a].access_types, PlaceIntents(k)[a])]

PlaceFrontier(k) ==
    [a \in FixedArchetypes |->
        IF PlaceMerged(k)[a].ok
        THEN [nodes |-> Append(frontier[a].nodes, k),
              access_types |-> PlaceMerged(k)[a].existing]
        ELSE [nodes |-> <<k>>, access_types |-> PlaceMerged(k)[a].existing]]

PlaceWaits(k) ==
    LET F[a \in 0..Len(FixedWorld)] ==
            IF a = 0 THEN <<>>
            ELSE IF PlaceMerged(k)[a].ok THEN F[a - 1]
                 ELSE F[a - 1] \o frontier[a].nodes
    IN Dedup(SortByKey(F[Len(FixedWorld)], F[Len(FixedWorld)]))

\* WorldAccess::new over the accessor's access lists as they are, neither
\* sorted nor deduplicated.
WorldAccess_new_raw(accessor) ==
    [a \in FixedArchetypes |-> Accessor_access_types(accessor, FixedInfo(a))]

\* WorldAccess::new over the access lists the schedule computes for a
\* system: one ArchetypeAccess per archetype (src/src/access.rs).
WorldAccess_new(accessor) ==
    [a \in FixedArchetypes |-> AnySystem_access_types(accessor, FixedInfo(a))]

\* The other parts of the model stay idle while the schedule runs.
AccIdle == tokens = <<>> /\ issued = <<>> /\ lastop = [op |-> "none"] /\ reborrows = <<>>
WorldIdle == array = <<>> /\ set_to_archetype = {} /\ inserted = <<>>
EntIdle ==
    /\ entries = <<>> /\ free = <<>> /\ slow_entries = <<>>
    /\ droplist = <<>> /\ handles = <<>> /\ dropped = <<>>
SchedIdle ==
    /\ systems = <<>> /\ frontier = <<>> /\ nodes = <<>> /\ waits = <<>>
    /\ task = <<>> /\ sigpos = <<>> /\ scopeidx = 0 /\ phase = "idle"
    /\ cells = <<>>
StoreIdle == storage = [len |-> 0]
SyncIdle ==
    /\ pushq = [cap |-> 0] /\ popq = [phase |-> "idle"]
    /\ threads = <<>> /\ synclog = [calls |-> 0]
AsyncIdle ==
    /\ granted = [cells |-> <<>>] /\ refs = <<>>
    /\ lock = [state |-> 0] /\ tasks = <<>>
SchedFrame == UNCHANGED <<cells, accVars, worldVars, entVars, storeVars, syncVars, asyncVars>>
ClosureFrame == UNCHANGED <<accVars, worldVars, entVars, storeVars, syncVars, asyncVars>>

\* The component columns of the world's archetypes, as <<archetype,
\* component>>, and their values before any system has run.
FixedCells == << <<2, T>>, <<3, T>>, <<3, U>> >>
InitialCell == [by |-> 0, saw |-> <<>>]

\* The closure of system n, called with the WorldAccess of access_types: it
\* is deterministic and touches the granted columns only.  Every column it
\* holds Write for gets a value made of n and of the values of all the
\* columns it holds a grant for.
System_run(n, access_types, cs) ==
    LET grants(k) == {access_types[FixedCells[k][1]][i].access :
                          i \in {i \in DOMAIN access_types[FixedCells[k][1]] :
                                    access_types[FixedCells[k][1]][i].component
                                        = FixedCells[k][2]}}
        saw == SelectSeq([k \in DOMAIN cs |-> [cell |-> k, value |-> cs[k]]],
                         LAMBDA e : grants(e.cell) # {})
    IN [k \in DOMAIN cs |->
           IF Write \in grants(k) THEN [by |-> n, saw |-> saw] ELSE cs[k]]

SchedInit ==
    /\ systems = <<>>
    /\ frontier = <<>>
    /\ nodes = <<>>
    /\ waits = <<>>
    /\ task = <<>>
    /\ sigpos = <<>>
    /\ scopeidx = 0
    /\ phase = "add"
    /\ cells = [k \in DOMAIN FixedCells |-> InitialCell]

\* Schedule::add_system / with_system
AddSystem(accessor) ==
    /\ phase = "add"
    /\ Len(systems) < MaxSystems
    /\ systems' = Append(systems, accessor)
    /\ UNCHANGED <<frontier, nodes, waits, task, sigpos, scopeidx, phase>>
    /\ SchedFrame

\* execute_rayon up to the loop over the systems: one empty frontier per
\* archetype of the world.
BeginExecute ==
    /\ phase = "add"
    /\ frontier' = [a \in FixedArchetypes |-> [nodes |-> <<>>, access_types |-> <<>>]]
    /\ phase' = IF Len(systems) = 0 THEN "run" ELSE "build"
    /\ UNCHANGED <<systems, nodes, waits, task, sigpos, scopeidx>>
    /\ SchedFrame

\* `nodes[wait].signals.push(next_node)`, were it to push `wait`.
Node_signal_pushed_wait(wait, next_node) == wait

\* What `nodes[wait].signals.push(next_node)` pushes.
Node_signal_pushed(wait, next_node) == next_node

\* The initial counter of a node without the extra one, and with two.
Node_waits_bare(count) == count
Node_waits_two(count) == count + 2

\* `waits: AtomicUsize::new(waits + 1)`: one more than the nodes waited
\* for; the extra one is subtracted by the loop of pool.scope.
Node_waits(count) == count + 1

\* The body of `for system in &mut self.systems`: place the next system.
PlaceSystem ==
    /\ phase = "build"
    /\ LET k == Len(nodes) + 1
       IN /\ frontier' = PlaceFrontier(k)
          /\ nodes' = Append([n \in 1..Len(nodes) |->
                                 IF n \in Range(PlaceWaits(k))
                                 THEN [nodes[n] EXCEPT
                                          !.signals = Append(@, Node_signal_pushed(n, k))]
                                 ELSE nodes[n]],
                             [signals |-> <<>>, access_types |-> PlaceIntents(k)])
          /\ waits' = Append(waits, Node_waits(Len(PlaceWaits(k))))
          /\ task' = Append(task, "idle")
          /\ sigpos' = Append(sigpos, 1)
          /\ phase' = IF k = Len(systems) THEN "run" ELSE "build"
    /\ UNCHANGED <<systems, scopeidx>>
    /\ SchedFrame

\* signal_to_node(node_index): the counter goes down by one and the node
\* is spawned when it reaches zero.
signal_waits(node_index) == [waits EXCEPT ![node_index] = @ - 1]
signal_task(tk, node_index) ==
    IF waits[node_index] - 1 = 0 THEN [tk EXCEPT ![node_index] = "spawned"] ELSE tk

\* The loop of pool.scope: the initial signal to the next node.
ScopeSignal ==
    /\ phase = "run"
    /\ scopeidx < Len(nodes)
    /\ scopeidx' = scopeidx + 1
    /\ waits' = signal_waits(scopeidx + 1)
    /\ task' = signal_task(task, scopeidx + 1)
    /\ UNCHANGED <<systems, frontier, nodes, sigpos, phase>>
    /\ SchedFrame

\* A worker picks the spawned task up: Node::execute calls the closure.
NodeExecute(n) ==
    /\ phase = "run"
    /\ task[n] = "spawned"
    /\ task' = [task EXCEPT ![n] = "running"]
    /\ UNCHANGED <<systems, frontier, nodes, waits, sigpos, scopeidx, phase>>
    /\ SchedFrame

\* The closure does its reads and writes and returns.
NodeReturn(n) ==
    /\ phase = "run"
    /\ task[n] = "running"
    /\ task' = [task EXCEPT ![n] = IF nodes[n].signals = <<>> THEN "done" ELSE "signalling"]
    /\ cells' = System_run(n, nodes[n].access_types, cells)
    /\ UNCHANGED <<systems, frontier, nodes, waits, sigpos, scopeidx, phase>>
    /\ ClosureFrame

\* `for signal in &node.signals`: the task signals its next successor.
NodeSignal(n) ==
    /\ phase = "run"
    /\ task[n] = "signalling"
    /\ LET signal == nodes[n].signals[sigpos[n]]
           last == sigpos[n] = Len(nodes[n].signals)
       IN /\ waits' = signal_waits(signal)
          /\ task' = signal_task([task EXCEPT ![n] = IF last THEN "done" ELSE @], signal)
          /\ sigpos' = [sigpos EXCEPT ![n] = @ + 1]
    /\ UNCHANGED <<systems, frontier, nodes, scopeidx, phase>>
    /\ SchedFrame

\* The closure panics: the task unwinds and signals nobody.
NodePanic(n) ==
    /\ phase = "run"
    /\ task[n] = "running"
    /\ task' = [task EXCEPT ![n] = "panicked"]
    /\ UNCHANGED <<systems, frontier, nodes, waits, sigpos, scopeidx, phase>>
    /\ SchedFrame

\* rayon's scope is complete when no spawned job is pending or running.
Scope_complete_always(tk) == TRUE

Scope_complete(tk) ==
    \A n \in DOMAIN tk : tk[n] \notin {"spawned", "running", "signalling"}

\* pool.scope returns to execute_rayon, or resumes the panic of a job,
\* once its body has ended and the scope is complete.
ScopeReturn ==
    /\ phase = "run"
    /\ scopeidx = Len(nodes)
    /\ Scope_complete(task)
    /\ phase' = IF \E n \in DOMAIN task : task[n] = "panicked" THEN "panicked"
                 ELSE "returned"
    /\ UNCHANGED <<systems, frontier, nodes, waits, task, sigpos, scopeidx>>
    /\ SchedFrame

\* Schedule::execute up to its loop.
Execute ==
    /\ phase = "add"
    /\ phase' = IF Len(systems) = 0 THEN "executed" ELSE "seq"
    /\ UNCHANGED <<systems, frontier, nodes, waits, task, sigpos, scopeidx>>
    /\ SchedFrame

\* The body of the loop of Schedule::execute up to system.run: the
\* WorldAccess of the next system is built and its closure is called.
ExecuteSystem ==
    /\ phase = "seq"
    /\ scopeidx < Len(systems)
    /\ \A n \in DOMAIN task : task[n] = "done"
    /\ scopeidx' = scopeidx + 1
    /\ nodes' = Append(nodes, [signals |-> <<>>, system |-> scopeidx + 1,
                                access_types |-> WorldAccess_new(systems[scopeidx + 1])])
    /\ task' = Append(task, "running")
    /\ UNCHANGED <<systems, frontier, waits, sigpos, phase>>
    /\ SchedFrame

\* system.run returns; after the last system so does Schedule::execute.
ExecuteReturn ==
    /\ phase = "seq"
    /\ task # <<>>
    /\ task[Len(task)] = "running"
    /\ task' = [task EXCEPT ![Len(task)] = "done"]
    /\ phase' = IF scopeidx = Len(systems) THEN "executed" ELSE "seq"
    /\ cells' = System_run(Len(task), nodes[Len(task)].access_types, cells)
    /\ UNCHANGED <<systems, frontier, nodes, waits, sigpos, scopeidx>>
    /\ ClosureFrame

SchedNext ==
    \/ \E accessor \in SchedAccessors : AddSystem(accessor)
    \/ BeginExecute
    \/ PlaceSystem
    \/ ScopeSignal
    \/ \E n \in 1..Len(nodes) : NodeExecute(n)
    \/ \E n \in 1..Len(nodes) : NodeReturn(n)
    \/ \E n \in 1..Len(nodes) : NodeSignal(n)
    \/ \E n \in 1..Len(nodes) : NodePanic(n)
    \/ ScopeReturn
    \/ Execute
    \/ ExecuteSystem
    \/ ExecuteReturn

InitSched == SchedInit /\ AccIdle /\ WorldIdle /\ EntIdle /\ StoreIdle /\ SyncIdle /\ AsyncIdle
SpecSched == InitSched /\ [][SchedNext]_vars

\* The parallel execute with closures that return: no closure panics, and
\* the caller and the workers of the pool keep taking steps.
SchedLiveNext ==
    \/ \E accessor \in SchedAccessors : AddSystem(accessor)
    \/ BeginExecute
    \/ PlaceSystem
    \/ ScopeSignal
    \/ \E n \in 1..Len(nodes) : NodeExecute(n)
    \/ \E n \in 1..Len(nodes) : NodeReturn(n)
    \/ \E n \in 1..Len(nodes) : NodeSignal(n)
    \/ ScopeReturn

\* The steps of pool.scope: its loop, the tasks of the workers, its return.
SchedScope ==
    \/ ScopeSignal
    \/ \E n \in 1..Len(nodes) : NodeExecute(n)
    \/ \E n \in 1..Len(nodes) : NodeReturn(n)
    \/ \E n \in 1..Len(nodes) : NodeSignal(n)
    \/ ScopeReturn

SpecSchedLive == InitSched /\ [][SchedLiveNext]_vars /\ WF_vars(SchedScope)

(***************************************************************************)
(* SpecLists: the list functions of the schedule, merge_access_types and   *)
(* sort_dedup_access_types (src/src/schedule.rs), applied to the access    *)
(* lists of one archetype that has the three components.                   *)
(***************************************************************************)
\* The ComponentAccess values accessors produce for the archetype.
ListInfo == ArchetypeInfo_new(<<T, U, V>>)
ListEntries == {ComponentAccess_of(ListInfo, Req(c, a)) : c \in Components, a \in Access}

\* What sort_dedup_access_types is given: any sequence of entries.
AccessLists == UNION {[1..n -> ListEntries] : n \in 0..MaxLen}

\* What merge_access_types is given: a frontier union and an intent, both
\* as sort_dedup_access_types and earlier merges leave them, sorted by
\* component with one entry per component.
SortedLists ==
    {l \in AccessLists : \A i \in 1..(Len(l) - 1) : l[i].component < l[i + 1].component}

ListsInit ==
    lastop \in {[op |-> "merge_access_types", applied |-> FALSE,
                 existing |-> e, merge |-> m] : e \in SortedLists, m \in SortedLists}
               \cup {[op |-> "sort_dedup_access_types", applied |-> FALSE,
                      list |-> l] : l \in AccessLists}

\* merge_access_types(&mut existing, &merge)
MergeAccessTypes ==
    /\ lastop.op = "merge_access_types" /\ ~lastop.applied
    /\ \E r \in {merge_access_types(lastop.existing, lastop.merge)} :
          lastop' = [op |-> "merge_access_types", applied |-> TRUE,
                     existing |-> lastop.existing, merge |-> lastop.merge,
                     ok |-> r.ok, result |-> r.existing]
    /\ UNCHANGED <<schedVars, tokens, issued, reborrows, worldVars, entVars, storeVars, syncVars, asyncVars>>

\* sort_dedup_access_types(iter, bump)
SortDedupAccessTypes ==
    /\ lastop.op = "sort_dedup_access_types" /\ ~lastop.applied
    /\ lastop' = [op |-> "sort_dedup_access_types", applied |-> TRUE,
                  list |-> lastop.list, result |-> sort_dedup_access_types(lastop.list)]
    /\ UNCHANGED <<schedVars, tokens, issued, reborrows, worldVars, entVars, storeVars, syncVars, asyncVars>>

ListsNext == MergeAccessTypes \/ SortDedupAccessTypes

InitLists ==
    /\ ListsInit /\ tokens = <<>> /\ issued = <<>> /\ reborrows = <<>>
    /\ SchedIdle /\ WorldIdle /\ EntIdle /\ StoreIdle /\ SyncIdle /\ AsyncIdle
SpecLists == InitLists /\ [][ListsNext]_vars

(***************************************************************************)
(* Properties of the schedule.                                             *)
(***************************************************************************)
\* The kinds of grant node n holds on component c of archetype a.
NodeGrants(n, a, c) ==
    {nodes[n].access_types[a][i].access : i \in
        {i \in 1..Len(nodes[n].access_types[a]) :
            nodes[n].access_types[a][i].component = c}}

\* Two systems conflict: on some archetype both hold a grant on the same
\* component and one of the two grants is a Write.
NodesConflict(i, j) ==
    \E a \in FixedArchetypes, c \in Components :
        /\ NodeGrants(i, a, c) # {}
        /\ NodeGrants(j, a, c) # {}
        /\ Write \in (NodeGrants(i, a, c) \cup NodeGrants(j, a, c))

\* C1 (scheduler safety): at no instant of the parallel execute are two
\* systems running concurrently that both hold a grant on the same
\* (archetype, component) with at least one of the two being a Write.
C1_SchedulerSafety ==
    \A i, j \in 1..Len(nodes) :
        (i # j /\ task[i] = "running" /\ task[j] = "running") => ~NodesConflict(i, j)

\* C2 (scheduler ordering): when S_i and S_j, i < j in add-order, conflict,
\* the closure of S_j starts only after the closure of S_i has returned.
C2_SchedulerOrdering ==
    \A i, j \in 1..Len(nodes) :
        (i < j /\ NodesConflict(i, j) /\ task[j] \in {"running", "signalling", "done"})
            => task[i] \in {"signalling", "done"}

\* The normalized intent of an accessor on an archetype, as a set: for
\* every component it requests and the archetype has, one grant, Write
\* when a Write was requested and Read otherwise; nothing when the
\* accessor's filter rejects the archetype.
NormalizedIntent(accessor, info) ==
    IF ~Filter_filter_archetype(accessor, info) THEN {}
    ELSE {[component |-> accessor.reqs[i].component,
           access |-> IF \E j \in DOMAIN accessor.reqs :
                             /\ accessor.reqs[j].component = accessor.reqs[i].component
                             /\ accessor.reqs[j].access = Write
                      THEN Write ELSE Read,
           offset |-> ArchetypeInfo_component_offset(info, accessor.reqs[i].component)] :
          i \in {i \in DOMAIN accessor.reqs :
                     ArchetypeInfo_has(info, accessor.reqs[i].component)}}

\* C13 (sequential mode): Schedule::execute runs the systems one at a
\* time in add-order, each once and each returned before the next starts,
\* every one of them when it has returned; the token of a system holds,
\* on every archetype, exactly the system's normalized intent, one entry
\* per component.
C13_SequentialMode ==
    phase \in {"seq", "executed"} =>
        /\ Len(nodes) = scopeidx /\ Len(task) = scopeidx /\ scopeidx <= Len(systems)
        /\ phase = "executed" => (scopeidx = Len(systems) /\ \A n \in DOMAIN task : task[n] = "done")
        /\ \A n \in DOMAIN nodes :
               /\ nodes[n].system = n
               /\ n < Len(nodes) => task[n] = "done"
               /\ task[n] \in {"running", "done"}
               /\ \A a \in FixedArchetypes :
                      /\ Range(nodes[n].access_types[a])
                             = NormalizedIntent(systems[n], FixedInfo(a))
                      /\ Len(nodes[n].access_types[a])
                             = Cardinality(NormalizedIntent(systems[n], FixedInfo(a)))

\* The last of three systems is running, the two before it have returned,
\* and its accessor asked for the same component twice.
C13_Witness ==
    /\ phase = "seq"
    /\ Len(task) = 3
    /\ task = <<"done", "done", "running">>
    /\ Len(systems[3].reqs) = 2
    /\ systems[3].reqs[1].component = systems[3].reqs[2].component

\* The pair of systems that write T on archetypes with U and on
\* archetypes without U.
DisjointPair ==
    {<<FilteredAcc(<<Req(T, Write)>>, {U}, {}), FilteredAcc(<<Req(T, Write)>>, {}, {U})>>,
     <<FilteredAcc(<<Req(T, Write)>>, {}, {U}), FilteredAcc(<<Req(T, Write)>>, {U}, {})>>}

\* C14 (disjoint-archetype parallelism): in a schedule of two systems
\* that write T under filters selecting disjoint archetypes, the two have
\* no conflicting (archetype, component) pair, the parallel execute puts
\* no edge between them and both wait counters start at 1.
C14_DisjointParallelism ==
    (systems \in DisjointPair /\ phase = "run" /\ Len(nodes) = 2) =>
        /\ ~NodesConflict(1, 2)
        /\ nodes[1].signals = <<>> /\ nodes[2].signals = <<>>
        /\ scopeidx = 0 => waits = <<1, 1>>

\* Both closures of the pair are running at once.
C14_Witness ==
    /\ systems \in DisjointPair
    /\ phase = "run"
    /\ task = <<"running", "running">>

\* C17 (panic propagation): the panic of a system closure reaches the
\* caller of the parallel execute only when no system is running or
\* waiting to run or signalling any more; a system that was running when
\* another panicked is not cut short.
C17_PanicPropagation ==
    phase \in {"panicked", "returned"} =>
        \A n \in DOMAIN task : task[n] \in {"idle", "done", "panicked"}

\* One closure has panicked while another system is still running.
C17_Witness ==
    /\ phase = "run"
    /\ \E m, n \in DOMAIN task : task[m] = "panicked" /\ task[n] = "running"

\* The nodes that list n in their signals, and whether m has already
\* signalled n.
Preds(n) == {m \in DOMAIN nodes : \E i \in DOMAIN nodes[m].signals : nodes[m].signals[i] = n}
Signalled(m, n) ==
    \E i \in DOMAIN nodes[m].signals : i < sigpos[m] /\ nodes[m].signals[i] = n

\* C21 (wait-counter protocol): in the parallel execute no node is listed
\* twice in the signals of a node; the counter of a node is 1 plus the
\* number of its predecessors, less the signal of the scope loop once it
\* has been given and less one for every predecessor that has signalled
\* it; it is never below zero; a node is spawned only when it has not run
\* yet, and its counter never goes up.
C21_WaitCounterProtocol ==
    /\ [](phase \in {"build", "run", "returned", "panicked"} =>
            \A n \in DOMAIN nodes :
                /\ \A i, j \in DOMAIN nodes[n].signals :
                       nodes[n].signals[i] = nodes[n].signals[j] => i = j
                /\ waits[n] >= 0
                /\ waits[n] = 1 + Cardinality(Preds(n))
                                - (IF n <= scopeidx THEN 1 ELSE 0)
                                - Cardinality({m \in Preds(n) : Signalled(m, n)})
                /\ task[n] # "idle" => waits[n] = 0)
    /\ [][phase = "run" =>
            \A n \in DOMAIN task :
                /\ (task'[n] = "spawned" /\ task[n] # "spawned") => task[n] = "idle"
                /\ task'[n] = "idle" => task[n] = "idle"
                /\ waits'[n] <= waits[n]]_vars

\* The parallel execute has returned, and a node with two predecessors
\* has run after both had signalled it.
C21_Witness ==
    /\ phase = "returned"
    /\ \E n \in DOMAIN nodes : Cardinality(Preds(n)) = 2 /\ task[n] = "done" /\ waits[n] = 0

\* C22 (termination): when no closure panics and the caller and the
\* workers keep taking steps, the parallel execute, once its graph is
\* built and pool.scope entered, returns with every system executed and
\* every counter at zero.
C22_Termination ==
    (phase = "run") ~>
        (/\ phase = "returned"
         /\ Len(task) = Len(systems)
         /\ \A n \in DOMAIN task : task[n] = "done" /\ waits[n] = 0)

\* Three systems have been executed, the last after waiting for another.
C22_Witness ==
    /\ phase = "returned"
    /\ Len(task) = 3
    /\ \A n \in DOMAIN task : task[n] = "done"
    /\ Preds(3) # {}

\* C23 (no false edges): every edge P -> S the parallel execute builds
\* joins two systems that conflict on some archetype.
C23_NoFalseEdges ==
    phase \in {"build", "run", "returned", "panicked"} =>
        \A p \in DOMAIN nodes : \A s \in Preds(p) : NodesConflict(s, p)

\* C24 (acyclic graph): every index in the signals of a node is greater
\* than the index of the node.
C24_AcyclicGraph ==
    phase \in {"build", "run", "returned", "panicked"} =>
        \A n \in DOMAIN nodes : \A i \in DOMAIN nodes[n].signals : nodes[n].signals[i] > n

\* A task goes through its signals: a chain of three nodes, the second
\* signalling the third.
C24_Witness ==
    /\ phase = "run"
    /\ Len(nodes) = 3
    /\ nodes[1].signals # <<>> /\ nodes[2].signals # <<>>
    /\ task[2] = "signalling"

\* The kind of the entries of a list for a component, as a set.
KindsIn(list, component) ==
    {list[i].access : i \in {i \in DOMAIN list : list[i].component = component}}

\* A list is sorted by component with one entry per component.
StrictlySorted(list) ==
    \A i \in 1..(Len(list) - 1) : list[i].component < list[i + 1].component

\* C25 (frontier merge): merge_access_types returns true exactly when
\* every component present in both lists is Read in both; then `existing`
\* has become the union of the two, sorted by component with one entry
\* per component; otherwise `existing` has become `merge`.
C25_FrontierMerge ==
    (lastop.op = "merge_access_types" /\ lastop.applied) =>
        /\ lastop.ok <=> \A c \in Components :
               (KindsIn(lastop.existing, c) # {} /\ KindsIn(lastop.merge, c) # {})
                   => (KindsIn(lastop.existing, c) = {Read} /\ KindsIn(lastop.merge, c) = {Read})
        /\ lastop.ok =>
               /\ StrictlySorted(lastop.result)
               /\ Range(lastop.result) = Range(lastop.existing) \cup Range(lastop.merge)
        /\ ~lastop.ok => lastop.result = lastop.merge

\* A merge that succeeded on two lists sharing a Read component, with an
\* entry of `merge` going between two entries of `existing`.
C25_Witness ==
    /\ lastop.op = "merge_access_types" /\ lastop.applied /\ lastop.ok
    /\ Len(lastop.existing) = 2 /\ Len(lastop.result) = 3
    /\ lastop.existing[1].component = T /\ lastop.existing[2].component = V
    /\ Len(lastop.merge) = 2
    /\ lastop.merge[1].component = T /\ lastop.merge[2].component = U

\* C26 (intent normalization): sort_dedup_access_types returns a list
\* sorted by component with exactly one entry for every component of its
\* input, Write when some input entry of the component is Write and Read
\* otherwise.
C26_IntentNormalization ==
    (lastop.op = "sort_dedup_access_types" /\ lastop.applied) =>
        /\ StrictlySorted(lastop.result)
        /\ \A c \in Components :
               KindsIn(lastop.result, c) =
                   IF Write \in KindsIn(lastop.list, c) THEN {Write}
                   ELSE IF Read \in KindsIn(lastop.list, c) THEN {Read}
                   ELSE {}
        /\ Range(lastop.result) \subseteq Range(lastop.list)

\* An input out of order in which one component comes as Read and then as
\* Write.
C26_Witness ==
    /\ lastop.op = "sort_dedup_access_types" /\ lastop.applied
    /\ Len(lastop.list) = 3 /\ Len(lastop.result) = 2
    /\ lastop.list[1].component = U /\ lastop.list[1].access = Read
    /\ lastop.list[2].component = T
    /\ lastop.list[3].component = U /\ lastop.list[3].access = Write

(***************************************************************************)
(* ArchetypeAccess (src/src/access.rs).  A token's access_types is a       *)
(* sequence of ComponentAccess; an Option of an iterator is a sequence of  *)
(* at most one iterator [component, access, offset].                       *)
(***************************************************************************)
GrantIndex(access_types, component) ==
    PositionFrom([i \in DOMAIN access_types |-> access_types[i].component = component], 0)

Iter(component, access, offset) ==
    [component |-> component, access |-> access, offset |-> offset]

\* ArchetypeAccess::take with the `*access = Access::Read` of its
\* (Read, _) arm left out.
ArchetypeAccess_take_keeps_write(access_types, requests) ==
    LET F[i \in 0..Len(requests)] ==
            IF i = 0 THEN [source |-> access_types, taken |-> <<>>]
            ELSE LET st == F[i - 1]
                     requested == requests[i]
                     index == GrantIndex(st.source, requested.component)
                 IN IF index = None THEN st
                    ELSE IF requested.access = Read
                    THEN [source |-> st.source, taken |-> Append(st.taken, requested)]
                    ELSE IF st.source[index + 1].access = Write
                    THEN [source |-> SwapRemove(st.source, index + 1),
                          taken |-> Append(st.taken, requested)]
                    ELSE st
    IN F[Len(requests)]

\* ArchetypeAccess::take, given what accessor.access_types(info) yields.
ArchetypeAccess_take(access_types, requests) ==
    LET F[i \in 0..Len(requests)] ==
            IF i = 0 THEN [source |-> access_types, taken |-> <<>>]
            ELSE LET st == F[i - 1]
                     requested == requests[i]
                     index == GrantIndex(st.source, requested.component)
                 IN IF index = None THEN st
                    ELSE IF requested.access = Read
                    THEN [source |-> [st.source EXCEPT ![index + 1].access = Read],
                          taken |-> Append(st.taken, requested)]
                    ELSE IF st.source[index + 1].access = Write
                    THEN [source |-> SwapRemove(st.source, index + 1),
                          taken |-> Append(st.taken, requested)]
                    ELSE st
    IN F[Len(requests)]

\* ArchetypeAccess::read_component::<T> with its downgrade to Read left
\* out.
ArchetypeAccess_read_component_keeping(access_types, component) ==
    LET index == GrantIndex(access_types, component)
    IN IF index = None
       THEN [access_types |-> access_types, iter |-> <<>>]
       ELSE [access_types |-> access_types,
             iter |-> <<Iter(component, Read, access_types[index + 1].offset)>>]

\* ArchetypeAccess::read_component::<T>
ArchetypeAccess_read_component(access_types, component) ==
    LET index == GrantIndex(access_types, component)
    IN IF index = None
       THEN [access_types |-> access_types, iter |-> <<>>]
       ELSE [access_types |-> [access_types EXCEPT ![index + 1].access = Read],
             iter |-> <<Iter(component, Read, access_types[index + 1].offset)>>]

\* ArchetypeAccess::borrow_read_component::<T>: the grants stay as they
\* are.
ArchetypeAccess_borrow_read_component(access_types, component) ==
    LET index == GrantIndex(access_types, component)
    IN IF index = None
       THEN [access_types |-> access_types, iter |-> <<>>]
       ELSE [access_types |-> access_types,
             iter |-> <<Iter(component, Read, access_types[index + 1].offset)>>]

\* ArchetypeAccess::borrow_write_component::<T>
ArchetypeAccess_borrow_write_component(access_types, component) ==
    LET index == GrantIndex(access_types, component)
    IN IF index = None \/ access_types[index + 1].access # Write
       THEN [access_types |-> access_types, iter |-> <<>>]
       ELSE [access_types |-> access_types,
             iter |-> <<Iter(component, Write, access_types[index + 1].offset)>>]

\* ArchetypeAccess::write_component::<T>, were it to turn a Read grant
\* into Write instead of returning None.
ArchetypeAccess_write_component_upgrading(access_types, component) ==
    LET index == GrantIndex(access_types, component)
    IN IF index = None
       THEN [access_types |-> access_types, iter |-> <<>>]
       ELSE IF access_types[index + 1].access # Write
       THEN [access_types |-> [access_types EXCEPT ![index + 1].access = Write],
             iter |-> <<Iter(component, Write, access_types[index + 1].offset)>>]
       ELSE [access_types |-> SwapRemove(access_types, index + 1),
             iter |-> <<Iter(component, Write, access_types[index + 1].offset)>>]

\* ArchetypeAccess::write_component::<T>
ArchetypeAccess_write_component(access_types, component) ==
    LET index == GrantIndex(access_types, component)
    IN IF index = None \/ access_types[index + 1].access # Write
       THEN [access_types |-> access_types, iter |-> <<>>]
       ELSE [access_types |-> SwapRemove(access_types, index + 1),
             iter |-> <<Iter(component, Write, access_types[index + 1].offset)>>]

\* ArchetypeAccess::try_read_component::<T>: without a grant the iterator
\* is the chunk sizes alone and reaches no column.
ArchetypeAccess_try_read_component(access_types, component) ==
    ArchetypeAccess_read_component(access_types, component)

\* ArchetypeAccess::try_write_component::<T>
ArchetypeAccess_try_write_component(access_types, component) ==
    ArchetypeAccess_write_component(access_types, component)

\* ArchetypeAccess::access_component(access, component).  After the
\* swap_remove of a Write grant the source reads access_types[index]
\* again: past the end this is an index panic; otherwise it is the offset
\* of the entry moved into the slot, which Archetype::access_component
\* rejects with its debug assertion in a debug build and accepts in a
\* release build.
ArchetypeAccess_access_component(access_types, access, component, build) ==
    LET index == GrantIndex(access_types, component)
        after == IF access = Read
                 THEN [access_types EXCEPT ![index + 1].access = Read]
                 ELSE SwapRemove(access_types, index + 1)
    IN IF index = None \/ (access = Write /\ access_types[index + 1].access = Read)
       THEN [access_types |-> access_types, iter |-> <<>>, panic |-> FALSE]
       ELSE IF index + 1 > Len(after)
       THEN [access_types |-> after, iter |-> <<>>, panic |-> TRUE]
       ELSE IF build = "debug" /\ after[index + 1].offset # access_types[index + 1].offset
       THEN [access_types |-> after, iter |-> <<>>, panic |-> TRUE]
       ELSE [access_types |-> after,
             iter |-> <<Iter(component, access, after[index + 1].offset)>>,
             panic |-> FALSE]

(***************************************************************************)
(* Views (src/src/read.rs, write.rs, and.rs, or.rs, filter.rs).  A view    *)
(* is a tuple ("and") or an Or ("or") of Read / Write / TryRead / TryWrite *)
(* parts, wrapped in Filtered with the With / Without filters.             *)
(***************************************************************************)
Part(op, component) == [op |-> op, component |-> component]
AndView(parts, with, without) ==
    [kind |-> "and", parts |-> parts, with |-> with, without |-> without]
OrView(parts, with, without) ==
    [kind |-> "or", parts |-> parts, with |-> with, without |-> without]

\* Filter::filter_archetype of Read<T> / Write<T> (has T) and of
\* TryRead<T> / TryWrite<T> (always true).
Part_filter_archetype(part, info) ==
    IF part.op \in {"read", "write"} THEN ArchetypeInfo_has(info, part.component)
    ELSE TRUE

\* Filter::filter_archetype of a tuple (all parts), of Or (some part) and
\* of Filtered (the view's and the filter's).
View_filter_archetype(view, info) ==
    /\ IF view.kind = "and"
       THEN \A i \in DOMAIN view.parts : Part_filter_archetype(view.parts[i], info)
       ELSE \E i \in DOMAIN view.parts : Part_filter_archetype(view.parts[i], info)
    /\ \A c \in view.with : ArchetypeInfo_has(info, c)
    /\ \A c \in view.without : ~ArchetypeInfo_has(info, c)

\* View::view of one part: Read / Write panic when the token hands out
\* nothing, TryRead / TryWrite do not.
Part_result(part, r) ==
    [access_types |-> r.access_types, iter |-> r.iter,
     panic |-> part.op \in {"read", "write"} /\ r.iter = <<>>]

Part_view(access_types, part) ==
    Part_result(part,
        IF part.op = "read"
        THEN ArchetypeAccess_read_component(access_types, part.component)
        ELSE IF part.op = "write"
        THEN ArchetypeAccess_write_component(access_types, part.component)
        ELSE IF part.op = "try_read"
        THEN ArchetypeAccess_try_read_component(access_types, part.component)
        ELSE ArchetypeAccess_try_write_component(access_types, part.component))

\* View::view of a tuple (every part, in order), of Or (the parts whose
\* filter passes) and of Filtered (the inner view).
View_push(st, r) ==
    [access_types |-> r.access_types, iters |-> st.iters \o r.iter, panic |-> r.panic]

View_step(view, info, st, part) ==
    IF st.panic THEN st
    ELSE IF view.kind = "or" /\ ~Part_filter_archetype(part, info) THEN st
    ELSE View_push(st, Part_view(st.access_types, part))

View_view(view, access_types, info) ==
    LET F[i \in 0..Len(view.parts)] ==
            IF i = 0 THEN [access_types |-> access_types, iters |-> <<>>, panic |-> FALSE]
            ELSE View_step(view, info, F[i - 1], view.parts[i])
    IN F[Len(view.parts)]

(***************************************************************************)
(* WorldAccess (src/src/access.rs): one ArchetypeAccess per archetype.     *)
(***************************************************************************)
\* WorldAccess::take: ArchetypeAccess::take on every archetype.
WorldAccess_take(archetypes, accessor) ==
    LET r == [a \in FixedArchetypes |->
                 ArchetypeAccess_take(archetypes[a],
                                      Accessor_access_types(accessor, FixedInfo(a)))]
    IN [source |-> [a \in FixedArchetypes |-> r[a].source],
        taken |-> [a \in FixedArchetypes |-> r[a].taken]]

\* ArchetypeAccess::reborrow(&'b mut self), were it to move the grants out
\* of self.
ArchetypeAccess_reborrow_moving(access_types) ==
    [source |-> <<>>, reborrowed |-> access_types]

\* ArchetypeAccess::reborrow(&'b mut self): self as it is left and the
\* token returned, whose access_types is `self.access_types.clone()`.
ArchetypeAccess_reborrow(access_types) ==
    [source |-> access_types, reborrowed |-> access_types]

\* WorldAccess::reborrow: ArchetypeAccess::reborrow on every archetype.
WorldAccess_reborrow(archetypes) ==
    [source |-> [a \in FixedArchetypes |-> ArchetypeAccess_reborrow(archetypes[a]).source],
     reborrowed |-> [a \in FixedArchetypes |->
                        ArchetypeAccess_reborrow(archetypes[a]).reborrowed]]

\* The filter_map of WorldAccess::query and WorldAccess::take_query; the
\* view is given the token itself (take_query) or a reborrow, a copy of
\* its access list made at that moment (query).
Query_selects_all(view, info) == TRUE

Query_selects(view, info) == View_filter_archetype(view, info)

Query_push(st, a, r, reborrow) ==
    [archetypes |-> IF reborrow THEN st.archetypes
                    ELSE [st.archetypes EXCEPT ![a] = r.access_types],
     result |-> IF r.panic THEN st.result
                ELSE Append(st.result, [archetype |-> a, iters |-> r.iters]),
     viewed |-> st.viewed \cup {a},
     panic |-> r.panic]

Query_step(st, a, view, reborrow) ==
    IF st.panic \/ ~Query_selects(view, FixedInfo(a)) THEN st
    ELSE Query_push(st, a, View_view(view, st.archetypes[a], FixedInfo(a)), reborrow)

QueryFold(archetypes, view, reborrow) ==
    LET F[a \in 0..Len(FixedWorld)] ==
            IF a = 0
            THEN [archetypes |-> archetypes, result |-> <<>>, viewed |-> {}, panic |-> FALSE]
            ELSE Query_step(F[a - 1], a, view, reborrow)
    IN F[Len(FixedWorld)]

\* WorldAccess::query
WorldAccess_query(archetypes, view) == QueryFold(archetypes, view, TRUE)

\* WorldAccess::take_query, were it to give the view a reborrow as query
\* does.
WorldAccess_take_query_borrowing(archetypes, view) == QueryFold(archetypes, view, TRUE)

\* WorldAccess::take_query
WorldAccess_take_query(archetypes, view) == QueryFold(archetypes, view, FALSE)

(***************************************************************************)
(* SpecAccess: a system body working on the WorldAccess it was run with.   *)
(***************************************************************************)
\* The accessors the root token is built from, the accessors given to
\* take and the views given to query / take_query.
RootAccessors ==
    { Acc(<<Req(T, Write), Req(U, Write)>>),
      Acc(<<Req(T, Read), Req(U, Write)>>),
      FilteredAcc(<<Req(T, Write)>>, {}, {U}) }

TakeAccessors ==
    { Acc(<<Req(T, Read)>>),
      Acc(<<Req(T, Write)>>),
      Acc(<<Req(T, Read), Req(T, Write)>>),
      Acc(<<Req(T, Write), Req(T, Read)>>),
      Acc(<<Req(U, Read), Req(U, Read)>>),
      FilteredAcc(<<Req(T, Read), Req(U, Write)>>, {U}, {}) }

Views ==
    { AndView(<<Part("read", T)>>, {}, {}),
      AndView(<<Part("write", T)>>, {}, {U}),
      AndView(<<Part("read", T), Part("write", U)>>, {}, {}),
      AndView(<<Part("try_write", U), Part("write", T)>>, {}, {}),
      AndView(<<Part("try_read", U)>>, {T}, {}),
      OrView(<<Part("write", U), Part("read", T)>>, {}, {}) }

AccFrame == UNCHANGED <<schedVars, worldVars, entVars, storeVars, syncVars, asyncVars>>

AccInit ==
    /\ \E accessor \in RootAccessors : tokens = <<WorldAccess_new(accessor)>>
    /\ issued = <<>>
    /\ reborrows = <<>>
    /\ lastop = [op |-> "new", n |-> 0, panic |-> FALSE]

CanOp == lastop.n < MaxOps /\ ~lastop.panic

\* The tokens the body can use.  A reborrow borrows its original mutably
\* for as long as it lives, so the original is out of reach until then.
\* Operations on different tokens do not affect each other; those on
\* tokens older than the innermost live reborrow are taken before it is
\* made or after it has ended.
UsableTokens ==
    IF reborrows = <<>> THEN DOMAIN tokens
    ELSE {t \in DOMAIN tokens : t > reborrows[Len(reborrows)].base}

Issue(a, iters) ==
    [i \in 1..Len(iters) |->
        [archetype |-> a, component |-> iters[i].component,
         access |-> iters[i].access, offset |-> iters[i].offset]]

\* The iterators of a query's archetype views, in archetype order.
IssueAll(result) ==
    LET F[i \in 0..Len(result)] ==
            IF i = 0 THEN <<>>
            ELSE F[i - 1] \o Issue(result[i].archetype, result[i].iters)
    IN F[Len(result)]

\* WorldAccess::take(accessor) on token t; the returned token is live too.
WorldTake(t, accessor) ==
    /\ CanOp
    /\ \E r \in {WorldAccess_take(tokens[t], accessor)} :
          /\ tokens' = Append([tokens EXCEPT ![t] = r.source], r.taken)
          /\ lastop' = [op |-> "take", n |-> lastop.n + 1, panic |-> FALSE,
                        token |-> t, before |-> tokens[t], accessor |-> accessor]
    /\ UNCHANGED <<issued, reborrows>>
    /\ AccFrame

\* One of read_component, write_component, try_read_component and
\* try_write_component on the ArchetypeAccess of archetype a in token t.
ComponentOp(t, a, part) ==
    /\ CanOp
    /\ \E r \in {Part_view(tokens[t][a], part)} :
          /\ tokens' = [tokens EXCEPT ![t][a] = r.access_types]
          /\ issued' = issued \o Issue(a, r.iter)
          /\ lastop' = [op |-> part.op, n |-> lastop.n + 1, panic |-> FALSE,
                        token |-> t, archetype |-> a, component |-> part.component,
                        before |-> tokens[t][a], iter |-> r.iter]
    /\ UNCHANGED reborrows
    /\ AccFrame

ReadComponent(t, a, component) == ComponentOp(t, a, Part("read", component))
WriteComponent(t, a, component) == ComponentOp(t, a, Part("write", component))
TryReadComponent(t, a, component) == ComponentOp(t, a, Part("try_read", component))
TryWriteComponent(t, a, component) == ComponentOp(t, a, Part("try_write", component))

\* ArchetypeAccess::access_component(access, component) on archetype a of
\* token t, in a debug or a release build.
AccessComponent(t, a, access, component, build) ==
    /\ CanOp
    /\ \E r \in {ArchetypeAccess_access_component(tokens[t][a], access, component, build)} :
          /\ tokens' = [tokens EXCEPT ![t][a] = r.access_types]
          /\ issued' = issued \o Issue(a, r.iter)
          /\ lastop' = [op |-> "access_component", n |-> lastop.n + 1, panic |-> r.panic,
                        token |-> t, archetype |-> a, component |-> component,
                        access |-> access, build |-> build,
                        before |-> tokens[t][a], iter |-> r.iter]
    /\ UNCHANGED reborrows
    /\ AccFrame

\* ArchetypeAccess::borrow_read_component::<T> on archetype a of token t:
\* the iterator lives no longer than the borrow of the token.
BorrowReadComponent(t, a, component) ==
    /\ CanOp
    /\ \E r \in {ArchetypeAccess_borrow_read_component(tokens[t][a], component)} :
          /\ tokens' = [tokens EXCEPT ![t][a] = r.access_types]
          /\ lastop' = [op |-> "borrow_read", n |-> lastop.n + 1, panic |-> FALSE,
                        token |-> t, archetype |-> a, component |-> component,
                        before |-> tokens[t][a], iter |-> r.iter]
    /\ UNCHANGED <<issued, reborrows>>
    /\ AccFrame

\* ArchetypeAccess::borrow_write_component::<T> on archetype a of token t.
BorrowWriteComponent(t, a, component) ==
    /\ CanOp
    /\ \E r \in {ArchetypeAccess_borrow_write_component(tokens[t][a], component)} :
          /\ tokens' = [tokens EXCEPT ![t][a] = r.access_types]
          /\ lastop' = [op |-> "borrow_write", n |-> lastop.n + 1, panic |-> FALSE,
                        token |-> t, archetype |-> a, component |-> component,
                        before |-> tokens[t][a], iter |-> r.iter]
    /\ UNCHANGED <<issued, reborrows>>
    /\ AccFrame

\* WorldAccess::query(view) on token t: the iterators live no longer than
\* the borrow of the token.
Query(t, view) ==
    /\ CanOp
    /\ \E r \in {WorldAccess_query(tokens[t], view)} :
          /\ tokens' = [tokens EXCEPT ![t] = r.archetypes]
          /\ lastop' = [op |-> "query", n |-> lastop.n + 1, panic |-> r.panic,
                        token |-> t, before |-> tokens[t], view |-> view,
                        result |-> r.result, viewed |-> r.viewed,
                        again |-> IF lastop.op = "query"
                                  THEN lastop.token = t /\ lastop.view = view
                                  ELSE FALSE,
                        first |-> IF lastop.op = "query" THEN lastop.result ELSE <<>>]
    /\ UNCHANGED <<issued, reborrows>>
    /\ AccFrame

\* WorldAccess::take_query(view) on token t: the iterators outlive the call.
TakeQuery(t, view) ==
    /\ CanOp
    /\ \E r \in {WorldAccess_take_query(tokens[t], view)} :
          /\ tokens' = [tokens EXCEPT ![t] = r.archetypes]
          /\ issued' = issued \o IssueAll(r.result)
          /\ lastop' = [op |-> "take_query", n |-> lastop.n + 1, panic |-> r.panic,
                        token |-> t, before |-> tokens[t], view |-> view,
                        result |-> r.result, viewed |-> r.viewed,
                        again |-> IF lastop.op = "query"
                                  THEN lastop.token = t /\ lastop.view = view
                                  ELSE FALSE,
                        first |-> IF lastop.op = "query" THEN lastop.result ELSE <<>>]
    /\ UNCHANGED reborrows
    /\ AccFrame

\* WorldAccess::reborrow on token t: the original is left as reborrow
\* leaves it and the returned token is live for the borrow.
Reborrow(t) ==
    /\ CanOp
    /\ \E r \in {WorldAccess_reborrow(tokens[t])} :
          /\ tokens' = Append([tokens EXCEPT ![t] = r.source], r.reborrowed)
          /\ reborrows' = Append(reborrows,
                              [parent |-> t, before |-> tokens[t],
                               reborrowed |-> r.reborrowed,
                               base |-> Len(tokens), issued |-> Len(issued)])
    /\ lastop' = [op |-> "reborrow", n |-> lastop.n + 1, panic |-> FALSE]
    /\ UNCHANGED issued
    /\ AccFrame

\* The innermost reborrow ends: the reborrowed token, the tokens taken
\* from it and the iterators they gave out are gone, and the original is
\* in reach again.
EndReborrow ==
    /\ reborrows # <<>>
    /\ ~lastop.panic
    /\ tokens' = SubSeq(tokens, 1, reborrows[Len(reborrows)].base)
    /\ issued' = SubSeq(issued, 1, reborrows[Len(reborrows)].issued)
    /\ reborrows' = SubSeq(reborrows, 1, Len(reborrows) - 1)
    /\ lastop' = [op |-> "end_reborrow", n |-> lastop.n, panic |-> FALSE,
                  token |-> reborrows[Len(reborrows)].parent,
                  before |-> reborrows[Len(reborrows)].before,
                  last |-> tokens[reborrows[Len(reborrows)].base + 1]]
    /\ AccFrame

AccNext ==
    \/ \E t \in UsableTokens, accessor \in TakeAccessors : WorldTake(t, accessor)
    \/ \E t \in UsableTokens, a \in FixedArchetypes, c \in {T, U} : ReadComponent(t, a, c)
    \/ \E t \in UsableTokens, a \in FixedArchetypes, c \in {T, U} : WriteComponent(t, a, c)
    \/ \E t \in UsableTokens, a \in FixedArchetypes, c \in {T, U} : TryReadComponent(t, a, c)
    \/ \E t \in UsableTokens, a \in FixedArchetypes, c \in {T, U} : TryWriteComponent(t, a, c)
    \/ \E t \in UsableTokens, a \in FixedArchetypes, c \in {T, U},
          access \in Access, build \in {"debug", "release"} :
           AccessComponent(t, a, access, c, build)
    \/ \E t \in UsableTokens, a \in FixedArchetypes, c \in {T, U} :
           BorrowReadComponent(t, a, c)
    \/ \E t \in UsableTokens, a \in FixedArchetypes, c \in {T, U} :
           BorrowWriteComponent(t, a, c)
    \/ \E t \in UsableTokens, view \in Views : Query(t, view)
    \/ \E t \in UsableTokens, view \in Views : TakeQuery(t, view)
    \/ \E t \in UsableTokens : Reborrow(t)
    \/ EndReborrow

InitAccess == AccInit /\ SchedIdle /\ WorldIdle /\ EntIdle /\ StoreIdle /\ SyncIdle /\ AsyncIdle
SpecAccess == InitAccess /\ [][AccNext]_vars

(***************************************************************************)
(* Entities (src/src/entity.rs, src/src/generation.rs).  Indices are        *)
(* 0-based as in the source; entries[index + 1] is the entry of an index.  *)
(***************************************************************************)
Location(archetype, entity) == [archetype |-> archetype, entity |-> entity]
Entity(generation, index) == [generation |-> generation, index |-> index]

\* GenerationCounter::bump left out.
GenerationCounter_bump_not(generation) == generation

\* GenerationCounter::bump, were it to count down.
GenerationCounter_bump_back(generation) == generation - 1

\* GenerationCounter::bump
GenerationCounter_bump(generation) == generation + 1

\* Entry::new (the location is Default::default()) and Entry::with_location
Entry_new == [generation |-> FirstGeneration, location |-> Location(0, 0)]
Entry_with_location(location) == [generation |-> FirstGeneration, location |-> location]

\* Entities::get: an Option as a sequence of at most one Location.
Entities_get(es, entity) ==
    IF entity.index >= Len(es) THEN <<>>
    ELSE IF es[entity.index + 1].generation = entity.generation
    THEN <<es[entity.index + 1].location>>
    ELSE <<>>

\* The `assert!(entry.generation.get() > entity.generation)` of
\* Entities::get fails.
Entities_get_assert_fails(es, entity) ==
    /\ entity.index < Len(es)
    /\ es[entity.index + 1].generation # entity.generation
    /\ ~(es[entity.index + 1].generation > entity.generation)

\* Entities::spawn_with_mut on (entries, free): SyncPop::pop_mut takes the
\* last element of the free list.
Entities_spawn_with_mut(es, fr, location) ==
    IF fr # <<>>
    THEN [entries |-> [es EXCEPT ![fr[Len(fr)] + 1].location = location],
          free |-> SubSeq(fr, 1, Len(fr) - 1),
          entity |-> Entity(es[fr[Len(fr)] + 1].generation, fr[Len(fr)])]
    ELSE [entries |-> Append(es, Entry_with_location(location)),
          free |-> fr,
          entity |-> Entity(FirstGeneration, Len(es))]

\* The loop of Entities::maintenance over the drained drop list.
Entities_drain(es, fr, drained) ==
    LET F[i \in 0..Len(drained)] ==
            IF i = 0 THEN [entries |-> es, free |-> fr]
            ELSE [entries |-> [F[i - 1].entries EXCEPT ![drained[i].index + 1].generation =
                                   GenerationCounter_bump(@)],
                  free |-> Append(F[i - 1].free, drained[i].index)]
    IN F[Len(drained)]

\* The tail of Entities::maintenance: `excess` fresh entries, all free.
Entities_extend(es, fr, excess) ==
    [entries |-> es \o [i \in 1..excess |-> Entry_new],
     free |-> fr \o [i \in 1..excess |-> Len(es) + i - 1]]

(***************************************************************************)
(* SpecEntities: the entity directory on its own.                          *)
(***************************************************************************)
EntFrame == UNCHANGED <<schedVars, accVars, worldVars, storeVars, syncVars, asyncVars>>

EntInit ==
    /\ entries = [i \in 1..InitialFree |-> Entry_new]
    /\ free = [i \in 1..InitialFree |-> i - 1]
    /\ slow_entries = <<>>
    /\ droplist = <<>>
    /\ handles = <<>>
    /\ dropped = <<>>

\* The location a spawn is given: the next row of archetype 1.
NextLocation == Location(1, Len(handles))

\* Entities::spawn(location)
Spawn ==
    /\ Len(handles) < MaxSpawns
    /\ IF free # <<>>
       THEN /\ entries' = [entries EXCEPT ![free[Len(free)] + 1].location = NextLocation]
            /\ free' = SubSeq(free, 1, Len(free) - 1)
            /\ handles' = Append(handles,
                   [entity |-> Entity(entries[free[Len(free)] + 1].generation, free[Len(free)]),
                    location |-> NextLocation])
            /\ UNCHANGED slow_entries
       ELSE /\ slow_entries' = Append(slow_entries, Entry_with_location(NextLocation))
            /\ handles' = Append(handles,
                   [entity |-> Entity(FirstGeneration, Len(entries) + Len(slow_entries)),
                    location |-> NextLocation])
            /\ UNCHANGED <<entries, free>>
    /\ UNCHANGED <<droplist, dropped>>
    /\ EntFrame

\* Entities::spawn_mut(location)
SpawnMut ==
    /\ Len(handles) < MaxSpawns
    /\ \E r \in {Entities_spawn_with_mut(entries, free, NextLocation)} :
          /\ entries' = r.entries
          /\ free' = r.free
          /\ handles' = Append(handles, [entity |-> r.entity, location |-> NextLocation])
    /\ UNCHANGED <<slow_entries, droplist, dropped>>
    /\ EntFrame

\* Entities::drop(entity) with a handle some spawn has returned.
Drop(entity) ==
    /\ Len(droplist) + Len(dropped) < MaxDrops
    /\ droplist' = Append(droplist, entity)
    /\ UNCHANGED <<entries, free, slow_entries, handles, dropped>>
    /\ EntFrame

Reverse(s) == [i \in 1..Len(s) |-> s[Len(s) + 1 - i]]

\* SyncPush::drain: in push order without the `parallel` feature, the
\* array read back from its end with it.
SyncPush_drain(list) == {list, Reverse(list)}

\* Entities::maintenance
Maintenance ==
    /\ \E drained \in SyncPush_drain(droplist) :
       \E r \in {Entities_drain(entries \o slow_entries, free, drained)} :
       \E x \in {Entities_extend(r.entries, r.free,
                                 Max2(Len(slow_entries) - Len(drained), 0))} :
          /\ entries' = x.entries
          /\ free' = x.free
          /\ dropped' = dropped \o [i \in 1..Len(drained) |->
                                       [entity |-> drained[i], at |-> Len(handles)]]
    /\ slow_entries' = <<>>
    /\ droplist' = <<>>
    /\ UNCHANGED handles
    /\ EntFrame

EntNext ==
    \/ Spawn
    \/ SpawnMut
    \/ \E k \in DOMAIN handles : Drop(handles[k].entity)
    \/ Maintenance

InitEntities == EntInit /\ SchedIdle /\ AccIdle /\ WorldIdle /\ StoreIdle /\ SyncIdle /\ AsyncIdle
SpecEntities == InitEntities /\ [][EntNext]_vars

(***************************************************************************)
(* Archetype storage (src/src/archetype/mod.rs, iterator.rs).  A chunk is  *)
(* its written bytes: address |-> <<value, byte of the value>>.            *)
(***************************************************************************)
\* Archetype::new(components)
Archetype_new(components) ==
    [info |-> ArchetypeInfo_new(components), chunks |-> <<>>, len |-> 0]

\* ptr::write of a value of `size` bytes at `addr`.
Chunk_write(chunk, addr, size, value) ==
    [b \in (DOMAIN chunk) \cup (addr..(addr + size - 1)) |->
        IF b \in addr..(addr + size - 1) THEN <<value, b - addr>> ELSE chunk[b]]

\* A read of `size` bytes at `addr`.
Chunk_read(chunk, addr, size) ==
    IF addr \notin DOMAIN chunk THEN Garbage
    ELSE IF \A k \in 0..(size - 1) :
               addr + k \in DOMAIN chunk /\ chunk[addr + k] = <<chunk[addr][1], k>>
    THEN chunk[addr][1]
    ELSE Garbage

\* The condition of Archetype::insert under which it allocates, replaced
\* by `true`.
Archetype_chunks_exhausted_always(archetype) == TRUE

\* `self.len == self.chunks.len() * self.info.chunk_capacity` of
\* Archetype::insert.
Archetype_chunks_exhausted(archetype) ==
    archetype.len = Len(archetype.chunks) * archetype.info.chunk_capacity

\* Archetype::alloc_chunk, when insert finds the chunks exhausted.
Archetype_alloc_chunk(archetype) ==
    IF Archetype_chunks_exhausted(archetype)
    THEN [archetype EXCEPT !.chunks = Append(@, [b \in {} |-> Garbage])]
    ELSE archetype

\* EntityInserter::write with the `.add(self.index)` left out.
EntityInserter_address_base(offset, size, index) == offset

\* The address EntityInserter::write writes to:
\* base.add(offset).cast::<T>().add(index).
EntityInserter_address(offset, size, index) == offset + size * index

\* ComponentSet::insert of a tuple into the row at self.len: one
\* EntityInserter::write per element, in the declared order, each at the
\* offset Archetype::insert looked up for that position.
Archetype_write_set(archetype, set) ==
    LET chunk_index == archetype.len \div archetype.info.chunk_capacity
        entity_index == archetype.len % archetype.info.chunk_capacity
        F[i \in 0..Len(set)] ==
            IF i = 0 THEN archetype.chunks[chunk_index + 1]
            ELSE Chunk_write(F[i - 1],
                     EntityInserter_address(
                         ArchetypeInfo_component_offset(archetype.info, set[i].component),
                         LayoutSize(set[i].component), entity_index),
                     LayoutSize(set[i].component), set[i].value)
    IN [archetype EXCEPT !.chunks[chunk_index + 1] = F[Len(set)]]

\* EntityInserter::finish(entity.index) and `self.len = newlen`.
Archetype_finish(archetype, index) ==
    [archetype EXCEPT
        !.chunks[(archetype.len \div archetype.info.chunk_capacity) + 1] =
            Chunk_write(@, SizeOfUsize * (archetype.len % archetype.info.chunk_capacity),
                        SizeOfUsize, index),
        !.len = archetype.len + 1]

\* ChunkSizes::next, to the end: the sizes ChunkSizes { chunk, len } yields.
ChunkSizes_collect(chunk, len) ==
    LET F[l \in 0..len] ==
            IF l = 0 THEN <<>>
            ELSE <<Min2(l, chunk)>> \o F[l - Min2(l, chunk)]
    IN F[len]

\* The assertion of Chunks::new(ptrs, chunk, len).
Chunks_new_assertion(archetype) ==
    Len(archetype.chunks) =
        IF archetype.len = 0 THEN 0
        ELSE ((archetype.len - 1) \div archetype.info.chunk_capacity) + 1

\* ArchetypeComponentIter .nth(chunk_index)?.nth(entity_index) on the
\* column at `offset`: an Option as a sequence of at most one value.
Archetype_nth(archetype, offset, size, chunk_index, entity_index) ==
    IF chunk_index >= Len(archetype.chunks) THEN <<>>
    ELSE IF archetype.len <= chunk_index * archetype.info.chunk_capacity THEN <<>>
    ELSE IF entity_index >= Min2(archetype.len - chunk_index * archetype.info.chunk_capacity,
                                 archetype.info.chunk_capacity)
    THEN <<>>
    ELSE <<Chunk_read(archetype.chunks[chunk_index + 1], offset + size * entity_index, size)>>

(***************************************************************************)
(* World (src/src/world.rs).  A set type S is the sequence of component    *)
(* ids S::components() lists, in the declared order; TypeId::of::<S>() is  *)
(* that sequence.  set_to_archetype is a set of <<S, index>> pairs.        *)
(***************************************************************************)
SetTypes == { <<>>, <<T>>, <<T, U>>, <<U, T>>, <<V, T>>, <<T, T>> }

\* `components.sort()` of archetype_for_set: ComponentInfo orders by id.
sort_components(set_type) == SortByKey(set_type, set_type)

\* Archetypes::archetype_for_set::<S>
Archetypes_archetype_for_set(arr, map, set_type) ==
    IF \E pair \in map : pair[1] = set_type
    THEN [array |-> arr, set_to_archetype |-> map,
          archetype |-> (CHOOSE pair \in map : pair[1] = set_type)[2]]
    ELSE IF PositionFrom([i \in DOMAIN arr |->
                ArchetypeInfo_is(arr[i].info, sort_components(set_type))], 0)
            # None
    THEN [array |-> arr, set_to_archetype |-> map,
          archetype |-> PositionFrom([i \in DOMAIN arr |->
                ArchetypeInfo_is(arr[i].info, sort_components(set_type))], 0)]
    ELSE [array |-> Append(arr, Archetype_new(sort_components(set_type))),
          set_to_archetype |-> map \cup {<<set_type, Len(arr)>>},
          archetype |-> Len(arr)]

\* One step of the iterator World::insert returns: the closure of
\* Archetype::insert with spawn_entity = entities.spawn_mut.  st holds
\* array, entries, free and the history of inserted sets.
World_spawn_row(st, archetype, set, spawned) ==
    [array |-> [st.array EXCEPT ![archetype + 1] =
                    Archetype_finish(
                        Archetype_write_set(Archetype_alloc_chunk(@), set),
                        spawned.entity.index)],
     entries |-> spawned.entries,
     free |-> spawned.free,
     inserted |-> Append(st.inserted,
                     [entity |-> spawned.entity, set |-> set, archetype |-> archetype])]

World_insert_one(st, archetype, set) ==
    World_spawn_row(st, archetype, set,
        Entities_spawn_with_mut(st.entries, st.free,
                                Location(archetype, st.array[archetype + 1].len)))

\* World::get_component::<T>(entity): an Option as a sequence of at most
\* one value.
World_get_component_at(arr, location, component) ==
    IF ArchetypeInfo_component_offset(arr[location.archetype + 1].info, component) = None
    THEN <<>>
    ELSE Archetype_nth(arr[location.archetype + 1],
             ArchetypeInfo_component_offset(arr[location.archetype + 1].info, component),
             LayoutSize(component),
             ArchetypeInfo_split_entity_index(arr[location.archetype + 1].info,
                                              location.entity)[1],
             ArchetypeInfo_split_entity_index(arr[location.archetype + 1].info,
                                              location.entity)[2])

World_get_component(arr, es, entity, component) ==
    IF Entities_get(es, entity) = <<>> THEN <<>>
    ELSE World_get_component_at(arr, Entities_get(es, entity)[1], component)

(***************************************************************************)
(* SpecWorld: World::new followed by World::insert calls.                  *)
(***************************************************************************)
WorldFrame ==
    UNCHANGED <<schedVars, accVars, slow_entries, droplist, handles, dropped, storeVars, syncVars, asyncVars>>

(***************************************************************************)
(* Iteration of views over the storage (src/src/or.rs,                     *)
(* src/src/archetype/iterator.rs, src/src/util/iterator.rs).  An iterator  *)
(* is the sequence of what it yields: an archetype view yields chunk       *)
(* views, a chunk view yields one item per row; an Option is a sequence of *)
(* at most one element.                                                    *)
(***************************************************************************)
\* Chunks: the chunk pointers zipped with ChunkSizes.
Chunks_count(archetype) ==
    Min2(Len(archetype.chunks),
         Len(ChunkSizes_collect(archetype.info.chunk_capacity, archetype.len)))

\* ArchetypeComponentIter / ArchetypeComponentIterMut: per chunk the slice
\* of `len` components at `offset`.
ArchetypeComponentIter_chunks(archetype, offset, size) ==
    [c \in 1..Chunks_count(archetype) |->
        [r \in 1..ChunkSizes_collect(archetype.info.chunk_capacity, archetype.len)[c] |->
            Chunk_read(archetype.chunks[c], offset + size * (r - 1), size)]]

\* TryArchetypeIter::Nothing over no chunk sizes at all.
TryArchetypeIter_nothing_empty(archetype) == <<>>

\* TryArchetypeIter::Nothing(chunk_sizes): TryIter::Nothing(n) per chunk,
\* which yields None n times.
TryArchetypeIter_nothing(archetype) ==
    [c \in 1..Len(ChunkSizes_collect(archetype.info.chunk_capacity, archetype.len)) |->
        [r \in 1..ChunkSizes_collect(archetype.info.chunk_capacity, archetype.len)[c] |->
            <<>>]]

\* TryArchetypeIter::Just(iter): TryIter::Just per chunk, which yields
\* Some(item) per item.
TryArchetypeIter_just(chunks) ==
    [c \in 1..Len(chunks) |-> [r \in 1..Len(chunks[c]) |-> <<chunks[c][r]>>]]

\* The archetype view of one part, given what the token handed out (r):
\* Read / Write give the component iterator, TryRead / TryWrite wrap it.
Part_chunks(archetype, part, r) ==
    IF part.op \in {"read", "write"}
    THEN ArchetypeComponentIter_chunks(archetype, r.iter[1].offset, LayoutSize(part.component))
    ELSE IF r.iter = <<>> THEN TryArchetypeIter_nothing(archetype)
    ELSE TryArchetypeIter_just(
             ArchetypeComponentIter_chunks(archetype, r.iter[1].offset,
                                           LayoutSize(part.component)))

\* View::view of Or, one branch: Just(view) when the branch's filter
\* accepts the archetype, Nothing(chunk_sizes) otherwise.
Or_branch(archetype, part, st, r) ==
    [access_types |-> r.access_types,
     panic |-> r.panic,
     branches |-> IF r.panic THEN st.branches
                  ELSE Append(st.branches,
                              TryArchetypeIter_just(Part_chunks(archetype, part, r)))]

Or_step(archetype, st, part) ==
    IF st.panic THEN st
    ELSE IF ~Part_filter_archetype(part, archetype.info)
    THEN [st EXCEPT !.branches = Append(@, TryArchetypeIter_nothing(archetype))]
    ELSE Or_branch(archetype, part, st, Part_view(st.access_types, part))

Or_view(view, access_types, archetype) ==
    LET F[i \in 0..Len(view.parts)] ==
            IF i = 0 THEN [access_types |-> access_types, branches |-> <<>>, panic |-> FALSE]
            ELSE Or_step(archetype, F[i - 1], view.parts[i])
    IN F[Len(view.parts)]

\* Zip::next: Some only when every element's next is.
Zip_len(iters) ==
    CHOOSE n \in {Len(iters[i]) : i \in DOMAIN iters} :
        \A i \in DOMAIN iters : n <= Len(iters[i])

\* The rows of one chunk: the chunk views of the branches, zipped.
Zip_chunk(branches, c) ==
    [r \in 1..Zip_len([i \in DOMAIN branches |-> branches[i][c]]) |->
        [i \in DOMAIN branches |-> branches[i][c][r]]]

\* The whole iteration: the archetype views zipped, chunk after chunk.
Zip_rows(branches) ==
    LET F[c \in 0..Zip_len(branches)] ==
            IF c = 0 THEN <<>> ELSE F[c - 1] \o Zip_chunk(branches, c)
    IN F[Zip_len(branches)]

\* The grants of a token built for an accessor that writes every component.
FullAccess(info) ==
    AnySystem_access_types(Acc(<<Req(T, Write), Req(U, Write), Req(V, Write)>>), info)

\* The Or views systems iterate.
OrViews ==
    { OrView(<<Part("read", T), Part("read", U)>>, {}, {}),
      OrView(<<Part("write", U), Part("try_read", T)>>, {}, {}),
      OrView(<<Part("read", V), Part("write", T)>>, {}, {U}),
      OrView(<<Part("try_write", V), Part("try_write", T)>>, {}, {}),
      OrView(<<Part("write", T), Part("write", T)>>, {}, {}) }

\* World::new; the directory starts with InitialFree free entries.
WorldInit ==
    /\ array = <<Archetype_new(<<>>)>>
    /\ set_to_archetype = {}
    /\ inserted = <<>>
    /\ entries = [i \in 1..InitialFree |-> Entry_new]
    /\ free = [i \in 1..InitialFree |-> i - 1]
    /\ slow_entries = <<>>
    /\ droplist = <<>>
    /\ handles = <<>>
    /\ dropped = <<>>

\* The n-th set of type set_type given to the world: every value is
\* unlike every other.
SetOf(set_type, n) ==
    [i \in 1..Len(set_type) |-> [component |-> set_type[i], value |-> 10 * n + i]]

\* World::insert::<S>(sets) with the returned iterator taken to its end,
\* for `count` sets.
Insert(set_type, count) ==
    /\ Len(inserted) + count <= MaxInserts
    /\ \E r \in {Archetypes_archetype_for_set(array, set_to_archetype, set_type)} :
       \E st0 \in {[array |-> r.array, entries |-> entries, free |-> free,
                    inserted |-> inserted]} :
       \E st1 \in {World_insert_one(st0, r.archetype,
                                    SetOf(set_type, Len(inserted) + 1))} :
       \E st2 \in {IF count = 1 THEN st1
                   ELSE World_insert_one(st1, r.archetype,
                                         SetOf(set_type, Len(inserted) + 2))} :
          /\ array' = st2.array
          /\ set_to_archetype' = r.set_to_archetype
          /\ entries' = st2.entries
          /\ free' = st2.free
          /\ inserted' = st2.inserted
    /\ WorldFrame

\* A system body iterating an Or view over archetype a of the world, with
\* a token that grants Write on every component (a &mut World borrow).
\* The view is invoked only on an archetype its filter accepts.
Iterate(a, view) ==
    /\ View_filter_archetype(view, array[a + 1].info)
    /\ \E r \in {Or_view(view, FullAccess(array[a + 1].info), array[a + 1])} :
          lastop' = [op |-> "iterate", archetype |-> a, view |-> view,
                     len |-> array[a + 1].len, panic |-> r.panic,
                     rows |-> IF r.panic THEN <<>> ELSE Zip_rows(r.branches)]
    /\ UNCHANGED <<tokens, issued, reborrows, schedVars, worldVars, entVars, storeVars, syncVars, asyncVars>>

WorldNext ==
    \/ \E set_type \in SetTypes, count \in 1..2 : Insert(set_type, count)
    \/ \E a \in 0..(Len(array) - 1), view \in OrViews : Iterate(a, view)

InitWorld == WorldInit /\ SchedIdle /\ AccIdle /\ StoreIdle /\ SyncIdle /\ AsyncIdle
SpecWorld == InitWorld /\ [][WorldNext]_vars

(***************************************************************************)
(* SpecWorldInsert: World::insert with component sets that are tuples and  *)
(* with hand-written ComponentSet implementations whose insert writes      *)
(* fewer components than components() lists.  The panic of such an insert  *)
(* unwinds to a caller that keeps the world.                               *)
(***************************************************************************)
\* `assert_eq!(self.offsets.count(), 0)` of EntityInserter::finish, for an
\* inserter that was given `total` offsets and `written` writes.
EntityInserter_finish_asserts(total, written) == total - Min2(written, total) = 0

\* One step of the iterator World::insert returns, for a set that writes
\* only its first `written` components: the chunk is allocated, the
\* components are written, spawn_entity runs, then finish panics; neither
\* the entity index is written nor `self.len = newlen` reached.
World_insert_short(st, archetype, set, written) ==
    [array |-> [st.array EXCEPT ![archetype + 1] =
                    Archetype_write_set(Archetype_alloc_chunk(@),
                                        SubSeq(set, 1, written))],
     entries |-> Entities_spawn_with_mut(st.entries, st.free,
                     Location(archetype, st.array[archetype + 1].len)).entries,
     free |-> Entities_spawn_with_mut(st.entries, st.free,
                  Location(archetype, st.array[archetype + 1].len)).free]

\* World::insert::<S>(once(set)) for a hand-written S that lists set_type
\* and writes the first `written` of it, the returned iterator advanced
\* once.
InsertShort(set_type, written) ==
    /\ written < Len(set_type)
    /\ ~EntityInserter_finish_asserts(Len(set_type), written)
    /\ Len(entries) - Len(free) < MaxInserts
    /\ \E r \in {Archetypes_archetype_for_set(array, set_to_archetype, set_type)} :
       \E st1 \in {World_insert_short(
                       [array |-> r.array, entries |-> entries, free |-> free],
                       r.archetype, SetOf(set_type, Len(entries) + 1), written)} :
          /\ array' = st1.array
          /\ set_to_archetype' = r.set_to_archetype
          /\ entries' = st1.entries
          /\ free' = st1.free
          /\ lastop' = [op |-> "insert", panic |-> TRUE, archetype |-> r.archetype,
                        len_before |-> r.array[r.archetype + 1].len,
                        len_after |-> st1.array[r.archetype + 1].len,
                        entries_before |-> entries, entries_after |-> st1.entries,
                        free_before |-> free, free_after |-> st1.free]
    /\ UNCHANGED <<inserted, tokens, issued, reborrows, schedVars, slow_entries,
                   droplist, handles, dropped, storeVars, syncVars, asyncVars>>

WorldInsertNext ==
    \/ \E set_type \in SetTypes, count \in 1..2 : Insert(set_type, count)
    \/ \E set_type \in SetTypes, written \in 0..1 : InsertShort(set_type, written)

SpecWorldInsert == InitWorld /\ [][WorldInsertNext]_vars

(***************************************************************************)
(* ArchetypeStorage (src/src/archetype/storage.rs) and the bundles it is   *)
(* given (src/src/bundle.rs).  A Place is its ptr, the row it points into  *)
(* (None when dangling), and its init flag; a row is one slot per          *)
(* component, Garbage while nothing lives in it.                           *)
(***************************************************************************)
\* The components of the archetype the storage is made for.
StorageComponents == <<T, U>>

\* Place::new
Place_new == [ptr |-> None, init |-> FALSE]

\* ArchetypeStorage::new(archetype), in a build with or without
\* debug_assertions.
ArchetypeStorage_new(components, build) ==
    [components |-> components,
     build |-> build,
     chunks |-> 0,
     len |-> 0,
     places_cache |-> [i \in DOMAIN components |-> Place_new],
     rows |-> <<>>,
     inserts |-> 0]

\* ArchetypeStorage::capacity
ArchetypeStorage_capacity(st) == st.chunks * ChunkCapacity

\* `if self.capacity() == self.len { self.alloc_chunk() }`
ArchetypeStorage_alloc_chunk(st) ==
    IF ArchetypeStorage_capacity(st) = st.len
    THEN [st EXCEPT !.chunks = @ + 1]
    ELSE st

\* The loop of insert over places_cache: `p.ptr = chunk_ptr.add(offset)`.
\* Nothing else of a Place is assigned.
ArchetypeStorage_point_places(places, row) ==
    [i \in DOMAIN places |-> [places[i] EXCEPT !.ptr = row]]

\* UninitComponents::init_some::<T>(value).  w is the call so far: the
\* shared places, the slots of the row, whether a panic unwinds, and what
\* has been written.
UninitComponents_init_some(w, components, component, value) ==
    IF w.panic THEN w
    ELSE IF PositionFrom([i \in DOMAIN components |-> components[i] = component], 0) = None
    THEN [w EXCEPT !.panic = TRUE]
    ELSE IF w.places[PositionFrom([i \in DOMAIN components |->
                                      components[i] = component], 0) + 1].init
    THEN [w EXCEPT !.panic = TRUE]
    ELSE [w EXCEPT
             !.row[PositionFrom([i \in DOMAIN components |->
                                    components[i] = component], 0) + 1] = value,
             !.places[PositionFrom([i \in DOMAIN components |->
                                       components[i] = component], 0) + 1].init = TRUE,
             !.written = Append(@, value)]

\* Bundle::init_components(uninit): one init_some per component the bundle
\* initializes, in its order; the k-th value of call n is 10 * n + k.
Bundle_init_components(bundle, components, places, n) ==
    LET F[k \in 0..Len(bundle.inits)] ==
            IF k = 0
            THEN [places |-> places,
                  row |-> [i \in DOMAIN components |-> Garbage],
                  panic |-> FALSE,
                  written |-> <<>>]
            ELSE UninitComponents_init_some(F[k - 1], components,
                                            bundle.inits[k], 10 * n + k)
    IN F[Len(bundle.inits)]

\* <DropInitialized as Drop>::drop: what drop_in_place is called on, in
\* order: the slot of every Place whose init flag is set.
DropInitialized_drop(places, row) ==
    LET F[i \in 0..Len(places)] ==
            IF i = 0 THEN <<>>
            ELSE IF places[i].init THEN Append(F[i - 1], row[i])
            ELSE F[i - 1]
    IN F[Len(places)]

\* `places.iter().all(|p| p.get().init)`
Places_all_init(places) == \A i \in DOMAIN places : places[i].init

\* The validation of insert under cfg(debug_assertions): it panics when
\* the ids of the bundle are those of the archetype.
ArchetypeStorage_validation_panics(st, bundle) ==
    st.build = "debug" /\ bundle.ids = st.components

\* ArchetypeStorage::insert(bundle, entity), past the validation, given
\* what init_components did (w).  A panic inside init_components unwinds
\* through insert and drops drop_initialized on the way.
ArchetypeStorage_finish(st, w, entity) ==
    IF (~w.panic) /\ Places_all_init(w.places)
    THEN [storage |-> [st EXCEPT !.places_cache = w.places,
                                 !.rows = Append(@, [entity |-> entity, slots |-> w.row]),
                                 !.len = @ + 1],
          outcome |-> "ok",
          written |-> w.written,
          drops |-> <<>>]
    ELSE [storage |-> [st EXCEPT !.places_cache = w.places],
          outcome |-> "panic",
          written |-> w.written,
          drops |-> DropInitialized_drop(w.places, w.row)]

\* ArchetypeStorage::insert(bundle, entity)
ArchetypeStorage_insert(st, bundle, entity) ==
    IF ArchetypeStorage_validation_panics(st, bundle)
    THEN [storage |-> st, outcome |-> "panic", written |-> <<>>, drops |-> <<>>]
    ELSE ArchetypeStorage_finish(
             [ArchetypeStorage_alloc_chunk(st) EXCEPT
                 !.places_cache = ArchetypeStorage_point_places(@, st.len)],
             Bundle_init_components(bundle, st.components,
                 ArchetypeStorage_point_places(st.places_cache, st.len),
                 st.inserts + 1),
             entity)

\* A bundle of the archetype that initializes each of its components once.
CompleteBundle(bundle, components) ==
    /\ bundle.ids = components
    /\ Len(bundle.inits) = Len(components)
    /\ Range(bundle.inits) = Range(components)

\* The bundles given to the storage: the ids with_ids reports and the
\* components init_components initializes, in its order.  Tuples report
\* and initialize the same; a hand-written Bundle need not.
StorageBundles ==
    { [ids |-> <<T, U>>, inits |-> <<T, U>>],
      [ids |-> <<T, U>>, inits |-> <<U, T>>],
      [ids |-> <<T, U>>, inits |-> <<T>>],
      [ids |-> <<T, U>>, inits |-> <<U>>],
      [ids |-> <<T, U>>, inits |-> <<>>],
      [ids |-> <<T, U>>, inits |-> <<T, T>>],
      [ids |-> <<T>>, inits |-> <<T>>],
      [ids |-> <<U>>, inits |-> <<U>>],
      [ids |-> <<>>, inits |-> <<>>],
      [ids |-> <<V>>, inits |-> <<V>>] }

Builds == {"debug", "release"}

(***************************************************************************)
(* SpecStorage: ArchetypeStorage::new followed by insert calls.  A panic   *)
(* of insert unwinds to a caller that keeps the storage.                   *)
(***************************************************************************)
StoreFrame == UNCHANGED <<schedVars, tokens, issued, reborrows, worldVars, entVars, syncVars, asyncVars>>

StoreInit == \E build \in Builds : storage = ArchetypeStorage_new(StorageComponents, build)

StorageInsert(bundle) ==
    /\ storage.inserts < MaxInserts
    /\ \E r \in {ArchetypeStorage_insert(storage, bundle, storage.inserts)} :
          /\ storage' = [r.storage EXCEPT !.inserts = @ + 1]
          /\ lastop' = [op |-> "storage_insert", bundle |-> bundle,
                        outcome |-> r.outcome, written |-> r.written,
                        drops |-> r.drops,
                        len_before |-> storage.len, len_after |-> r.storage.len,
                        chunks_before |-> storage.chunks, chunks_after |-> r.storage.chunks,
                        ret |-> IF r.outcome = "ok" THEN r.storage.len - 1 ELSE None,
                        call |-> storage.inserts + 1,
                        all_complete |->
                            /\ CompleteBundle(bundle, storage.components)
                            /\ (lastop.op = "storage_insert" => lastop.all_complete)]
    /\ StoreFrame

StoreNext == \E bundle \in StorageBundles : StorageInsert(bundle)

InitStorage == StoreInit /\ SchedIdle /\ AccIdle /\ WorldIdle /\ EntIdle /\ SyncIdle /\ AsyncIdle
SpecStorage == InitStorage /\ [][StoreNext]_vars

(***************************************************************************)
(* SyncPush and SyncPop of the `parallel` feature (src/src/util/sync.rs).  *)
(* A thread runs a call one shared access at a time; the atomic counters   *)
(* wrap as usize does.                                                     *)
(***************************************************************************)
Usize == 2 ^ UsizeBits

\* AtomicUsize::fetch_add, AtomicUsize::fetch_sub and usize::wrapping_sub:
\* the value afterwards.
fetch_add(value, n) == (value + n) % Usize
fetch_sub(value, n) == (value + Usize - n) % Usize
wrapping_sub(value, n) == (value + Usize - n) % Usize

ThreadIdle == [pc |-> "idle", value |-> None, index |-> None]
AllReturned == \A t \in DOMAIN threads : threads[t].pc = "idle"

\* SyncPush::new(capacity): the array is allocated and not written.
SyncPush_new(capacity) ==
    [ptr |-> [i \in 1..capacity |-> Garbage], len |-> 0, cap |-> capacity, slow |-> <<>>]

\* `self.len.fetch_sub(1, Ordering::Release)` of SyncPush::push left out.
SyncPush_push_overflow_kept(len) == len

\* `self.len.fetch_sub(1, Ordering::Release)` of SyncPush::push, on the
\* path of an index beyond the capacity.
SyncPush_push_overflow(len) == fetch_sub(len, 1)

\* What SyncPush::drain yields: the overflow list in order, then the array
\* from slot len - 1 down to slot 0; a slot beyond the allocation reads
\* as garbage.
SyncPush_drain_all(q) ==
    q.slow \o [i \in 1..q.len |->
                  IF q.len - i + 1 <= q.cap THEN q.ptr[q.len - i + 1] ELSE Garbage]

(***************************************************************************)
(* SpecSyncPush: threads pushing into one SyncPush, and its drains.        *)
(***************************************************************************)
PushFrame == UNCHANGED <<schedVars, accVars, worldVars, entVars, storeVars, popq, asyncVars>>

PushInit ==
    /\ \E capacity \in 0..MaxCapacity :
          /\ pushq = SyncPush_new(capacity)
          /\ synclog = [calls |-> 0, returned |-> {}, writes |-> [i \in 1..capacity |-> 0],
                        drains |-> 0, last |-> <<>>, expected |-> {}]
    /\ threads = [t \in 1..MaxThreads |-> ThreadIdle]
    /\ popq = [phase |-> "idle"]

\* A thread calls push(value); the values are numbered by call.
PushCall(t) ==
    /\ threads[t].pc = "idle"
    /\ synclog.calls < MaxPushes
    /\ threads' = [threads EXCEPT ![t] = [pc |-> "fetch_add", value |-> synclog.calls + 1,
                                          index |-> None]]
    /\ synclog' = [synclog EXCEPT !.calls = @ + 1]
    /\ UNCHANGED pushq
    /\ PushFrame

\* `let index = self.len.fetch_add(1, Ordering::Acquire); if index < self.cap`
PushFetchAdd(t) ==
    /\ threads[t].pc = "fetch_add"
    /\ pushq' = [pushq EXCEPT !.len = fetch_add(@, 1)]
    /\ threads' = [threads EXCEPT ![t].index = pushq.len,
                                  ![t].pc = IF pushq.len < pushq.cap THEN "write"
                                            ELSE "fetch_sub"]
    /\ UNCHANGED synclog
    /\ PushFrame

\* `std::ptr::write(self.ptr.add(index), value); index`
PushWrite(t) ==
    /\ threads[t].pc = "write"
    /\ pushq' = [pushq EXCEPT !.ptr[threads[t].index + 1] = threads[t].value]
    /\ synclog' = [synclog EXCEPT !.writes[threads[t].index + 1] = @ + 1,
                                  !.returned = @ \cup {threads[t].value}]
    /\ threads' = [threads EXCEPT ![t] = ThreadIdle]
    /\ PushFrame

\* `self.len.fetch_sub(1, Ordering::Release)`
PushFetchSub(t) ==
    /\ threads[t].pc = "fetch_sub"
    /\ pushq' = [pushq EXCEPT !.len = SyncPush_push_overflow(@)]
    /\ threads' = [threads EXCEPT ![t].pc = "lock"]
    /\ UNCHANGED synclog
    /\ PushFrame

\* `let mut lock = self.slow.lock(); ... lock.push(value); drop(lock)`
PushSlow(t) ==
    /\ threads[t].pc = "lock"
    /\ pushq' = [pushq EXCEPT !.slow = Append(@, threads[t].value)]
    /\ synclog' = [synclog EXCEPT !.returned = @ \cup {threads[t].value}]
    /\ threads' = [threads EXCEPT ![t] = ThreadIdle]
    /\ PushFrame

\* SyncPush::drain, run to its end; `&mut self` has it wait for every push
\* to return.  The slots are moved out of.
PushDrain ==
    /\ AllReturned
    /\ synclog.returned # {}
    /\ synclog' = [synclog EXCEPT !.drains = 1, !.last = SyncPush_drain_all(pushq),
                                  !.expected = synclog.returned, !.returned = {},
                                  !.writes = [i \in 1..pushq.cap |-> 0]]
    /\ pushq' = [pushq EXCEPT !.ptr = [i \in 1..pushq.cap |-> Garbage],
                              !.len = 0, !.slow = <<>>]
    /\ UNCHANGED threads
    /\ PushFrame

SyncPushNext ==
    \/ \E t \in 1..MaxThreads : PushCall(t)
    \/ \E t \in 1..MaxThreads : PushFetchAdd(t)
    \/ \E t \in 1..MaxThreads : PushWrite(t)
    \/ \E t \in 1..MaxThreads : PushFetchSub(t)
    \/ \E t \in 1..MaxThreads : PushSlow(t)
    \/ PushDrain

InitSyncPush == PushInit /\ SchedIdle /\ AccIdle /\ WorldIdle /\ EntIdle /\ StoreIdle /\ AsyncIdle
SpecSyncPush == InitSyncPush /\ [][SyncPushNext]_vars

(***************************************************************************)
(* SpecSpawn: the entity directory with threads calling Entities::spawn    *)
(* during a tick.  Between ticks the directory is used exclusively         *)
(* (spawn_mut, maintenance); in a tick `free` is the array of the SyncPop  *)
(* and popq holds its atomic len and its cap.                              *)
(***************************************************************************)
SpawnFrame == UNCHANGED <<schedVars, accVars, worldVars, storeVars, pushq, synclog, asyncVars>>

SpawnInit ==
    /\ EntInit
    /\ popq = [phase |-> "idle"]
    /\ threads = [t \in 1..MaxThreads |-> ThreadIdle]
    /\ pushq = [cap |-> 0]
    /\ synclog = [calls |-> 0]

\* The indices of the entities that are alive: those get resolves and
\* those whose entry waits in slow_entries.
LiveIndices ==
    {handles[k].entity.index : k \in {k \in DOMAIN handles :
        \/ Entities_get(entries, handles[k].entity) # <<>>
        \/ /\ handles[k].entity.index >= Len(entries)
           /\ handles[k].entity.index < Len(entries) + Len(slow_entries)}}

\* A tick begins: the systems get `&Entities`.  The Vec of the free list
\* may have more capacity than elements.
BeginTick(slack) ==
    /\ popq.phase = "idle"
    /\ popq' = [phase |-> "tick", len |-> Len(free), cap |-> Len(free) + slack,
                start |-> Len(free), base |-> Len(handles), live |-> LiveIndices,
                slots |-> <<>>, nones |-> <<>>]
    /\ UNCHANGED <<entVars, threads>>
    /\ SpawnFrame

\* A thread calls Entities::spawn(location).
SpawnCall(t) ==
    /\ popq.phase = "tick"
    /\ threads[t].pc = "idle"
    /\ Len(handles) + Cardinality({u \in DOMAIN threads : threads[u].pc # "idle"}) < MaxSpawns
    /\ threads' = [threads EXCEPT ![t] = [pc |-> "fetch_sub", value |-> NextLocation,
                                          index |-> None]]
    /\ UNCHANGED <<entVars, popq>>
    /\ SpawnFrame

\* SyncPop::pop: `let index = self.len.fetch_sub(1, Ordering::Acquire)
\* .wrapping_sub(1); if index < self.cap`
PopFetchSub(t) ==
    /\ threads[t].pc = "fetch_sub"
    /\ \E index \in {wrapping_sub(popq.len, 1)} :
          /\ threads' = [threads EXCEPT ![t].index = index,
                                        ![t].pc = IF index < popq.cap THEN "read"
                                                  ELSE "fetch_add"]
          /\ popq' = [popq EXCEPT !.len = fetch_sub(@, 1),
                                  !.slots = IF index < popq.cap THEN Append(@, index) ELSE @,
                                  !.nones = IF index < popq.cap THEN @
                                            ELSE Append(@, popq.start - Len(popq.slots))]
    /\ UNCHANGED entVars
    /\ SpawnFrame

\* `Some(std::ptr::read(self.ptr.add(index)))` and the branch of
\* spawn_with that uses the free index.  A slot beyond the elements of the
\* array reads as garbage, and indexing the entries with it panics.
PopRead(t) ==
    /\ threads[t].pc = "read"
    /\ \E index \in {IF threads[t].index < Len(free) THEN free[threads[t].index + 1]
                     ELSE Garbage} :
          IF index \in 0..(Len(entries) - 1)
          THEN /\ entries' = [entries EXCEPT ![index + 1].location = threads[t].value]
               /\ handles' = Append(handles,
                      [entity |-> Entity(entries[index + 1].generation, index),
                       location |-> threads[t].value])
               /\ threads' = [threads EXCEPT ![t] = ThreadIdle]
          ELSE /\ threads' = [threads EXCEPT ![t].pc = "panicked"]
               /\ UNCHANGED <<entries, handles>>
    /\ UNCHANGED <<free, slow_entries, droplist, dropped, popq>>
    /\ SpawnFrame

\* `self.len.fetch_add(1, Ordering::Release); None`
PopFetchAdd(t) ==
    /\ threads[t].pc = "fetch_add"
    /\ popq' = [popq EXCEPT !.len = fetch_add(@, 1)]
    /\ threads' = [threads EXCEPT ![t].pc = "lock"]
    /\ UNCHANGED entVars
    /\ SpawnFrame

\* The branch of spawn_with that takes the mutex of slow_entries.
SpawnSlow(t) ==
    /\ threads[t].pc = "lock"
    /\ slow_entries' = Append(slow_entries, Entry_with_location(threads[t].value))
    /\ handles' = Append(handles,
           [entity |-> Entity(FirstGeneration, Len(entries) + Len(slow_entries)),
            location |-> threads[t].value])
    /\ threads' = [threads EXCEPT ![t] = ThreadIdle]
    /\ UNCHANGED <<entries, free, droplist, dropped, popq>>
    /\ SpawnFrame

\* The tick ends when every call has returned: the free list is the first
\* len elements of the array.
EndTick ==
    /\ popq.phase = "tick"
    /\ AllReturned
    /\ free' = [i \in 1..popq.len |-> IF i <= Len(free) THEN free[i] ELSE Garbage]
    /\ popq' = [phase |-> "idle"]
    /\ UNCHANGED <<entries, slow_entries, droplist, handles, dropped, threads>>
    /\ SpawnFrame

SpawnNext ==
    \/ \E slack \in 0..1 : BeginTick(slack)
    \/ \E t \in 1..MaxThreads : SpawnCall(t)
    \/ \E t \in 1..MaxThreads : PopFetchSub(t)
    \/ \E t \in 1..MaxThreads : PopRead(t)
    \/ \E t \in 1..MaxThreads : PopFetchAdd(t)
    \/ \E t \in 1..MaxThreads : SpawnSlow(t)
    \/ EndTick
    \/ popq.phase = "idle" /\ SpawnMut
    \/ popq.phase = "idle" /\ \E k \in DOMAIN handles : Drop(handles[k].entity)
    \/ popq.phase = "idle" /\ Maintenance

InitSpawn == SpawnInit /\ SchedIdle /\ AccIdle /\ WorldIdle /\ StoreIdle /\ AsyncIdle
SpecSpawn == InitSpawn /\ [][SpawnNext]_vars

(***************************************************************************)
(* Properties of the access tokens, the entity directory and the storage.  *)
(***************************************************************************)
\* The holders of access to the column at `offset` of archetype a: the
\* grants still inside live tokens and the iterators handed out.  An
\* iterator reaches the column its offset addresses.  A token that is
\* reborrowed has lent its grants to the reborrow for as long as that
\* lives.
TokenHolders(a, offset, access) ==
    {<<t, i>> \in (DOMAIN tokens) \X (1..Len(FixedWorld)) :
        /\ \A k \in DOMAIN reborrows : reborrows[k].parent # t
        /\ i \in DOMAIN tokens[t][a]
        /\ tokens[t][a][i].offset = offset
        /\ tokens[t][a][i].access = access}

IterHolders(a, offset, access) ==
    {k \in DOMAIN issued :
        /\ issued[k].archetype = a
        /\ issued[k].offset = offset
        /\ issued[k].access = access}

Holders(a, offset, access) ==
    Cardinality(TokenHolders(a, offset, access)) + Cardinality(IterHolders(a, offset, access))

\* C3 (grant exclusivity, J1): for every archetype and every component
\* column of it, at most one live holder (token grant or issued iterator)
\* carries Write, and when one does no holder carries Read.
C3_GrantExclusivity ==
    \A a \in FixedArchetypes : \A i \in DOMAIN FixedWorld[a] :
        \A offset \in {ArchetypeInfo_component_offset(FixedInfo(a), FixedWorld[a][i])} :
            /\ Holders(a, offset, Write) <= 1
            /\ Holders(a, offset, Write) = 1 => Holders(a, offset, Read) = 0

\* What a token holds for a component before a take: Write, Read or
\* nothing ("Absent").
GrantOf(access_types, component) ==
    IF \E i \in DOMAIN access_types :
           access_types[i].component = component /\ access_types[i].access = Write
    THEN Write
    ELSE IF \E i \in DOMAIN access_types : access_types[i].component = component
    THEN Read
    ELSE "Absent"

FirstRequest(requests, component) ==
    CHOOSE i \in DOMAIN requests :
        /\ requests[i].component = component
        /\ \A j \in 1..(i - 1) : requests[j].component # component

\* Request i of a take is granted: against a Read grant a Read is; against
\* a Write grant the first request for the component is, and after a first
\* Read (which leaves Read in the source) every later Read is.
TakeGrants(before, requests, i) ==
    \/ /\ GrantOf(before, requests[i].component) = Read
       /\ requests[i].access = Read
    \/ /\ GrantOf(before, requests[i].component) = Write
       /\ \/ i = FirstRequest(requests, requests[i].component)
          \/ /\ requests[FirstRequest(requests, requests[i].component)].access = Read
             /\ requests[i].access = Read

\* What the source holds for a component after the take.
TakeLeaves(before, requests, component) ==
    IF GrantOf(before, component) # Write THEN GrantOf(before, component)
    ELSE IF \A i \in DOMAIN requests : requests[i].component # component THEN Write
    ELSE IF requests[FirstRequest(requests, component)].access = Read THEN Read
    ELSE "Absent"

TakeFollowsRules(before, requests, after, taken) ==
    /\ Len(taken) = Cardinality({i \in DOMAIN requests : TakeGrants(before, requests, i)})
    /\ \A k \in DOMAIN taken :
           \E i \in DOMAIN requests :
               /\ TakeGrants(before, requests, i)
               /\ Cardinality({j \in 1..i : TakeGrants(before, requests, j)}) = k
               /\ taken[k] = requests[i]
    /\ \A component \in Components :
           /\ GrantOf(after, component) = TakeLeaves(before, requests, component)
           /\ TakeLeaves(before, requests, component) # "Absent" =>
                  Cardinality({i \in DOMAIN after : after[i].component = component})
                      = Cardinality({i \in DOMAIN before : before[i].component = component})
    /\ \A i \in DOMAIN after :
           \E j \in DOMAIN before :
               after[i].component = before[j].component /\ after[i].offset = before[j].offset

\* C4 (take): on every archetype, ArchetypeAccess::take applies its three
\* rules to the requests in the order they are requested: a Read against
\* a Read or Write grant is put in the returned token and leaves Read in
\* the source; a Write against a Write grant moves the grant to the
\* returned token; a Write against a Read grant, and any request for a
\* component the source holds nothing for, is left out.
C4_TakeRules ==
    lastop.op = "take" =>
        \A a \in FixedArchetypes :
            TakeFollowsRules(lastop.before[a],
                             Accessor_access_types(lastop.accessor, FixedInfo(a)),
                             tokens[lastop.token][a],
                             tokens[Len(tokens)][a])

\* A take of (Read T, Write T) from a token holding Write T: the Read is
\* granted and downgrades the source, the Write after it is refused.
C4_Witness ==
    /\ lastop.op = "take"
    /\ \E a \in FixedArchetypes :
           /\ Len(Accessor_access_types(lastop.accessor, FixedInfo(a))) = 2
           /\ GrantOf(lastop.before[a], T) = Write
           /\ GrantOf(tokens[lastop.token][a], T) = Read
           /\ Len(tokens[Len(tokens)][a]) = 1

\* C10 (view filter): query and take_query return an archetype view for
\* exactly the archetypes the view's filter_archetype accepts, in archetype
\* order; on an archetype it rejects the view is not invoked and the
\* token's grants are as they were.
C10_ViewFilter ==
    lastop.op \in {"query", "take_query"} =>
        /\ ~lastop.panic =>
               /\ {lastop.result[k].archetype : k \in DOMAIN lastop.result}
                      = {a \in FixedArchetypes : View_filter_archetype(lastop.view, FixedInfo(a))}
               /\ \A k \in 2..Len(lastop.result) :
                      lastop.result[k - 1].archetype < lastop.result[k].archetype
        /\ \A a \in FixedArchetypes :
               ~View_filter_archetype(lastop.view, FixedInfo(a)) =>
                   /\ a \notin lastop.viewed
                   /\ tokens[lastop.token][a] = lastop.before[a]

\* A take_query that returned views for some archetypes, took grants out
\* of the token there, and passed over an archetype that still holds
\* grants.
C10_Witness ==
    /\ lastop.op = "take_query"
    /\ ~lastop.panic
    /\ Len(lastop.result) >= 1
    /\ tokens[lastop.token] # lastop.before
    /\ \E a \in FixedArchetypes :
           /\ a \notin lastop.viewed
           /\ lastop.before[a] # <<>>

\* A handle some spawn has returned is live when get resolves it.
Live(k) == Entities_get(entries, handles[k].entity) # <<>>

\* C6 (directory invariant, I1): every live handle resolves to the one
\* location it was spawned with, no two live handles share an index, no
\* index is both live and in the free list, and no index is in the free
\* list twice.
C6_DirectoryInvariant ==
    /\ \A k \in DOMAIN handles :
           Live(k) => Entities_get(entries, handles[k].entity) = <<handles[k].location>>
    /\ \A j, k \in DOMAIN handles :
           (j # k /\ Live(j) /\ Live(k)) => handles[j].entity.index # handles[k].entity.index
    /\ \A k \in DOMAIN handles :
           Live(k) => \A i \in DOMAIN free : free[i] # handles[k].entity.index
    /\ \A i, j \in DOMAIN free : i # j => free[i] # free[j]

C5_RoundTrip ==
    \A k \in DOMAIN inserted : \A c \in Components :
        IF \E i \in DOMAIN inserted[k].set : inserted[k].set[i].component = c
        THEN \E i \in DOMAIN inserted[k].set :
                 /\ inserted[k].set[i].component = c
                 /\ World_get_component(array, entries, inserted[k].entity, c)
                        = <<inserted[k].set[i].value>>
        ELSE World_get_component(array, entries, inserted[k].entity, c) = <<>>

\* At least three inserted entities: two of them in one archetype whose
\* sets hold two different components, and two in different archetypes.
C5_Witness ==
    /\ Len(inserted) >= 3
    /\ \E j, k \in DOMAIN inserted :
           /\ j < k
           /\ inserted[j].archetype = inserted[k].archetype
           /\ Len(inserted[j].set) = 2
           /\ inserted[j].set[1].component # inserted[j].set[2].component
    /\ \E j, k \in DOMAIN inserted : inserted[j].archetype # inserted[k].archetype

\* The token lacks the grant a part needs: any grant for a reading part,
\* a Write grant for a writing part.
LacksGrant(access_types, part) ==
    IF part.op \in {"read", "try_read"}
    THEN GrantOf(access_types, part.component) = "Absent"
    ELSE GrantOf(access_types, part.component) # Write

\* C12 (AccessNotGranted): a view applied to an archetype that has the
\* component of one of its parts, with a token that does not hold the
\* grant that part needs, panics.
C12_AccessNotGranted ==
    lastop.op \in {"query", "take_query"} =>
        \A a \in lastop.viewed : \A i \in DOMAIN lastop.view.parts :
            (/\ ArchetypeInfo_has(FixedInfo(a), lastop.view.parts[i].component)
             /\ LacksGrant(lastop.before[a], lastop.view.parts[i]))
                => lastop.panic

\* The sets inserted into archetype a, in row order.
RowsOf(a) ==
    LET F[k \in 0..Len(inserted)] ==
            IF k = 0 THEN <<>>
            ELSE IF inserted[k].archetype = a THEN Append(F[k - 1], inserted[k].set)
            ELSE F[k - 1]
    IN F[Len(inserted)]

\* The values a set holds for a component.
ValuesIn(set, component) ==
    {set[i].value : i \in {i \in DOMAIN set : set[i].component = component}}

\* What the row of `set` may show through one part of a view on an
\* archetype with `info`: the component for Read / Write, an Option of it
\* for TryRead / TryWrite.
Shown(set, part, info) ==
    IF part.op \in {"read", "write"} THEN ValuesIn(set, part.component)
    ELSE IF ArchetypeInfo_has(info, part.component)
    THEN {<<v>> : v \in ValuesIn(set, part.component)}
    ELSE {<<>>}

\* C11 (Or-view completeness): iterating an Or view over an archetype that
\* matches at least one branch yields exactly one tuple per row of the
\* archetype, in row order; the i-th element of every tuple is Some, of
\* what branch i shows of that row, exactly when the filter of branch i
\* matches the archetype, and None otherwise.
C11_OrViewCompleteness ==
    (lastop.op = "iterate" /\ ~lastop.panic) =>
        /\ Len(lastop.rows) = lastop.len
        /\ \A r \in DOMAIN lastop.rows : \A i \in DOMAIN lastop.view.parts :
               IF Part_filter_archetype(lastop.view.parts[i], array[lastop.archetype + 1].info)
               THEN \E x \in Shown(RowsOf(lastop.archetype)[r], lastop.view.parts[i],
                                    array[lastop.archetype + 1].info) :
                        lastop.rows[r][i] = <<x>>
               ELSE lastop.rows[r][i] = <<>>

\* An iteration over two chunks of rows in which one branch matched and
\* another did not.
C11_Witness ==
    /\ lastop.op = "iterate"
    /\ ~lastop.panic
    /\ lastop.len > ChunkCapacity
    /\ Len(lastop.rows) = lastop.len
    /\ \E i, j \in DOMAIN lastop.view.parts :
           /\ lastop.view.parts[i].op \in {"read", "write"}
           /\ lastop.rows[1][i] # <<>>
           /\ lastop.rows[lastop.len][j] = <<>>

ComponentIds(archetype) ==
    {archetype.info.components[i].id : i \in DOMAIN archetype.info.components}

\* C8 (signature uniqueness): the archetype array holds no two archetypes
\* with the same set of component ids, and two sets inserted with the same
\* components, in whatever order, are in the same archetype.
C8_SignatureUniqueness ==
    /\ \A i, j \in DOMAIN array :
           i # j => ComponentIds(array[i]) # ComponentIds(array[j])
    /\ \A j, k \in DOMAIN inserted :
           (\A c \in Components :
                Cardinality({i \in DOMAIN inserted[j].set : inserted[j].set[i].component = c})
                    = Cardinality({i \in DOMAIN inserted[k].set : inserted[k].set[i].component = c}))
               => inserted[j].archetype = inserted[k].archetype

\* ceil(n / c)
CeilDiv(n, c) == CHOOSE k \in 0..n : k * c >= n /\ (k = 0 \/ (k - 1) * c < n)

IncompleteBundle(bundle, components) ==
    \E i \in DOMAIN components : \A k \in DOMAIN bundle.inits : bundle.inits[k] # components[i]

\* How many times drop_in_place ran on a value.
DropCount(drops, value) == Cardinality({i \in DOMAIN drops : drops[i] = value})

\* C15 (incomplete bundle): when the bundle initializes fewer than all
\* component slots of the archetype, ArchetypeStorage::insert fails, every
\* component it wrote is dropped exactly once, and len is unchanged.
C15_IncompleteBundle ==
    (lastop.op = "storage_insert" /\ IncompleteBundle(lastop.bundle, StorageComponents))
        => /\ lastop.outcome = "panic"
           /\ \A k \in DOMAIN lastop.written : DropCount(lastop.drops, lastop.written[k]) = 1
           /\ lastop.len_after = lastop.len_before

(***************************************************************************)
(* Properties of a failed World::insert.                                   *)
(***************************************************************************)
\* C16 (failed insertion): when a component set writes fewer components
\* than its archetype has, the insert fails with the archetype's len
\* unchanged and the entity directory unchanged: no entry allocated or
\* relocated, no free-list slot consumed.
C16_FailedInsertConsistent ==
    (lastop.op = "insert" /\ lastop.panic)
        => /\ lastop.len_after = lastop.len_before
           /\ lastop.entries_after = lastop.entries_before
           /\ lastop.free_after = lastop.free_before

(***************************************************************************)
(* Properties of reborrow.                                                 *)
(***************************************************************************)
\* C18 (reborrow is non-destructive): the token reborrow returns has the
\* grant list the original had at that moment, and whatever is done with
\* the reborrowed token, while it lives and once it has ended, the
\* original has the grant list it had when it was reborrowed.
C18_ReborrowNonDestructive ==
    /\ \A i \in DOMAIN reborrows :
           /\ reborrows[i].reborrowed = reborrows[i].before
           /\ tokens[reborrows[i].parent] = reborrows[i].before
    /\ lastop.op = "end_reborrow" => tokens[lastop.token] = lastop.before

\* A reborrow has ended after the reborrowed token lost a grant the
\* original holds.
C18_Witness ==
    /\ lastop.op = "end_reborrow"
    /\ lastop.last # lastop.before
    /\ \E a \in FixedArchetypes : lastop.before[a] # <<>>

(***************************************************************************)
(* Properties of query, take_query and the taking calls.                   *)
(***************************************************************************)
\* The parts of a view that View::view applies on an archetype to the
\* grant of a component, by what they do with it.
Applies(view, info, component, ops) ==
    \E i \in DOMAIN view.parts :
        /\ view.parts[i].component = component
        /\ view.parts[i].op \in ops
        /\ view.kind = "or" => Part_filter_archetype(view.parts[i], info)

C20_TakingRemovesGrant ==
    (lastop.op \in {"read", "write"} /\ lastop.iter # <<>>)
        => /\ ArchetypeAccess_read_component(
                  tokens[lastop.token][lastop.archetype], lastop.component).iter = <<>>
           /\ ArchetypeAccess_write_component(
                  tokens[lastop.token][lastop.archetype], lastop.component).iter = <<>>

\* C20 as the code has it: once write_component::<T> has returned an
\* iterator the token holds no grant for T, and both calls return None
\* afterwards; once read_component::<T> has returned an iterator the
\* grant is Read, write_component::<T> returns None afterwards and
\* read_component::<T> returns one more shared iterator.
C20_TakingWriteRemovesReadDowngrades ==
    /\ (lastop.op = "write" /\ lastop.iter # <<>>)
           => GrantOf(tokens[lastop.token][lastop.archetype], lastop.component) = "Absent"
    /\ (lastop.op = "read" /\ lastop.iter # <<>>)
           => GrantOf(tokens[lastop.token][lastop.archetype], lastop.component) = Read

\* read_component has returned an iterator from a Write grant.
C20_Witness ==
    /\ lastop.op = "read"
    /\ lastop.iter # <<>>
    /\ GrantOf(lastop.before, lastop.component) = Write

\* The order of grants: absent < Read < Write.
GrantOrd(grant) == IF grant = Write THEN 2 ELSE IF grant = Read THEN 1 ELSE 0

\* C27 (monotone permissions): no operation on a token (take,
\* access_component, read_component, write_component, try_read_component,
\* try_write_component, borrow_read_component, borrow_write_component,
\* and the queries and reborrows built on them) raises the grant the
\* token holds for any component of any archetype: none adds a component
\* and none turns Read into Write.
C27_MonotonePermissions ==
    /\ lastop.op \in {"read", "write", "try_read", "try_write", "access_component",
                      "borrow_read", "borrow_write"} =>
           \A c \in Components :
               GrantOrd(GrantOf(tokens[lastop.token][lastop.archetype], c))
                   <= GrantOrd(GrantOf(lastop.before, c))
    /\ lastop.op \in {"take", "query", "take_query"} =>
           \A a \in DOMAIN lastop.before : \A c \in Components :
               GrantOrd(GrantOf(tokens[lastop.token][a], c))
                   <= GrantOrd(GrantOf(lastop.before[a], c))
    /\ lastop.op = "take" =>
           \A a \in DOMAIN lastop.before : \A c \in Components :
               GrantOrd(GrantOf(tokens[Len(tokens)][a], c))
                   <= GrantOrd(GrantOf(lastop.before[a], c))

\* write_component has taken a Write grant out of a token that keeps a
\* grant for another component.
C27_Witness ==
    /\ lastop.op = "write"
    /\ GrantOf(lastop.before, lastop.component) = Write
    /\ GrantOf(tokens[lastop.token][lastop.archetype], lastop.component) = "Absent"
    /\ tokens[lastop.token][lastop.archetype] # <<>>

\* The offset recorded in the grant entry of a component.
OffsetOf(access_types, component) ==
    access_types[CHOOSE i \in DOMAIN access_types :
                     access_types[i].component = component].offset

\* C28 (access_component): it returns None when the requested access
\* cannot be granted, and otherwise returns without a panic an iterator at
\* the offset recorded in the grant entry of the requested component.
C28_AccessComponentOwnColumn ==
    lastop.op = "access_component" =>
        IF GrantOrd(GrantOf(lastop.before, lastop.component)) < GrantOrd(lastop.access)
        THEN lastop.iter = <<>> /\ ~lastop.panic
        ELSE /\ ~lastop.panic
             /\ lastop.iter = <<Iter(lastop.component, lastop.access,
                                     OffsetOf(lastop.before, lastop.component))>>

\* C29 (deferred-drop queue): with any threads pushing between two drains,
\* no two pushes write the same array slot, once every push has returned
\* the array length is within the capacity, and the next drain returns
\* every pushed value exactly once, from the array or the overflow list.
C29_DeferredDropQueue ==
    /\ \A i \in DOMAIN synclog.writes : synclog.writes[i] <= 1
    /\ AllReturned => pushq.len <= pushq.cap
    /\ synclog.drains > 0 =>
           /\ Len(synclog.last) = Cardinality(synclog.expected)
           /\ Range(synclog.last) = synclog.expected

\* A drain of a queue of one slot after three pushes of which the second
\* call overtook the first: the first call's value left the overflow list.
C29_Witness ==
    /\ synclog.drains > 0
    /\ pushq.cap = 1
    /\ synclog.last = <<1, 3, 2>>

\* C30 (concurrent reservation): the handles the spawn calls of a tick
\* have returned have pairwise distinct indices, none the index of an
\* entity alive when the tick began; SyncPop::pop hands no slot of the free
\* array to two callers and returns None only when no slot is left; and
\* once every call has returned the length counter is the number of slots
\* still free.
C30_ConcurrentReservation ==
    popq.phase = "tick" =>
        /\ \A j, k \in (popq.base + 1)..Len(handles) :
               j # k => handles[j].entity.index # handles[k].entity.index
        /\ \A k \in (popq.base + 1)..Len(handles) :
               handles[k].entity.index \notin popq.live
        /\ \A i, j \in DOMAIN popq.slots : i # j => popq.slots[i] # popq.slots[j]
        /\ \A i \in DOMAIN popq.nones : popq.nones[i] = 0
        /\ AllReturned => popq.len = popq.start - Len(popq.slots)

\* The entities passed to drop and drained so far whose slot is `index`.
DroppedAt(index) ==
    {dropped[j].entity : j \in {j \in DOMAIN dropped : dropped[j].entity.index = index}}

\* C31 (drop only if alive): dropping a handle that is not alive has no
\* effect: a slot's generation has advanced at most once per entity
\* dropped from it, no index has been added to the free list twice, and an
\* entity no drop was called for is still the one its handle resolves to.
C31_DropOnlyAlive ==
    /\ \A i \in DOMAIN entries :
           entries[i].generation - FirstGeneration <= Cardinality(DroppedAt(i - 1))
    /\ \A i, j \in DOMAIN free : i # j => free[i] # free[j]
    /\ \A k \in DOMAIN handles :
           (/\ handles[k].entity.index < Len(entries)
            /\ \A i \in DOMAIN droplist : droplist[i] # handles[k].entity
            /\ \A i \in DOMAIN dropped : dropped[i].entity # handles[k].entity)
               => Live(k)

\* C32 (generation monotonicity, I2): no slot's generation ever decreases
\* and no slot goes away; get resolves an issued handle exactly when its
\* generation equals its slot's; and the assertion of Entities::get, that
\* a slot's generation differing from an issued handle's is greater, holds.
C32_GenerationMonotonicity ==
    /\ [][/\ Len(entries') >= Len(entries)
          /\ \A i \in DOMAIN entries : entries'[i].generation >= entries[i].generation]_vars
    /\ [](\A k \in DOMAIN handles :
             /\ ~Entities_get_assert_fails(entries, handles[k].entity)
             /\ Live(k) <=> /\ handles[k].entity.index < Len(entries)
                            /\ entries[handles[k].entity.index + 1].generation
                                   = handles[k].entity.generation)

\* A slot that two maintenances have bumped and a spawn has reused: the
\* first handle of the slot is two generations behind it.
C32_Witness ==
    \E j, k \in DOMAIN handles :
        /\ handles[j].entity.index = handles[k].entity.index
        /\ handles[j].entity.index < Len(entries)
        /\ handles[k].entity.generation = handles[j].entity.generation + 1
        /\ entries[handles[j].entity.index + 1].generation
               = handles[j].entity.generation + 2

\* C33 (repeated append): of consecutive insert calls with complete
\* bundles on one storage, every call succeeds, the i-th returns row i - 1
\* and leaves len at i, and a chunk is allocated exactly when len was the
\* chunk capacity times the number of chunks.
C33_RepeatedAppend ==
    (lastop.op = "storage_insert" /\ lastop.all_complete) =>
        /\ lastop.outcome = "ok"
        /\ lastop.ret = lastop.call - 1
        /\ lastop.len_after = lastop.call
        /\ lastop.chunks_after =
               IF lastop.len_before = ChunkCapacity * lastop.chunks_before
               THEN lastop.chunks_before + 1
               ELSE lastop.chunks_before

\* ------------------------------------------------------------------------
\* The counting ArchetypeAccess (src/src/query/access.rs) over the cells
\* World::lock builds (src/src/async.rs).
\* ------------------------------------------------------------------------
Shared == "Shared"
Mutable == "Mutable"
AccessKind == {Shared, Mutable}
UsizeMax == Usize - 1

\* storage.component_index(id): the position of id among the archetype's
\* components, or None.
ArchetypeStorage_component_index(archetype, id) ==
    PositionFrom([i \in DOMAIN archetype |-> archetype[i] = id], 0)

\* The has_all closure of World::lock from request i and archetype
\* component j on: one iterator over the archetype's components is shared
\* by all requests, and a request the iterator is exhausted for is skipped.
RECURSIVE World_lock_has_all(_, _, _, _)
World_lock_has_all(components, archetype, i, j) ==
    IF i > Len(components) THEN TRUE
    ELSE IF j > Len(archetype) THEN TRUE
    ELSE IF components[i].id = archetype[j]
         THEN World_lock_has_all(components, archetype, i + 1, j + 1)
    ELSE IF components[i].id < archetype[j] THEN FALSE
    ELSE World_lock_has_all(components, archetype, i, j + 1)

\* The cell World::lock pushes for a request of a kind.
World_lock_cell(kind) == IF kind = Mutable THEN UsizeMax ELSE UsizeMax - 1

\* The `granted` vector of World::lock from request i and archetype
\* component j on: one cell per request found among the components.
RECURSIVE World_lock_granted(_, _, _, _)
World_lock_granted(components, archetype, i, j) ==
    IF i > Len(components) \/ j > Len(archetype) THEN <<>>
    ELSE IF components[i].id = archetype[j]
         THEN <<World_lock_cell(components[i].kind)>>
                  \o World_lock_granted(components, archetype, i + 1, j + 1)
    ELSE World_lock_granted(components, archetype, i, j + 1)

\* The archetypes (sorted component lists) and the requests (sorted by id,
\* one per component at most) a World::lock is called with.
GrantArchetypes == {<<T>>, <<U>>, <<T, U>>}
GrantRequests ==
    {<<>>} \cup {<<[id |-> c, kind |-> k]>> : c \in {T, U}, k \in AccessKind}
           \cup {<<[id |-> T, kind |-> k1], [id |-> U, kind |-> k2]>> :
                     k1 \in AccessKind, k2 \in AccessKind}

\* The kind the request grants for a component, or "None".
KindGranted(components, id) ==
    IF \E i \in DOMAIN components : components[i].id = id
    THEN (CHOOSE r \in Range(components) : r.id = id).kind
    ELSE "None"

\* The state after World::lock built an AsyncArchetypeAccess for an
\* archetype and AsyncArchetypeAccess::get made the ArchetypeAccess over
\* it.  `cells` is the memory at `granted`: the vector's len elements and,
\* after them, what a reference past the vector finds (None until read).
GrantInit ==
    /\ \E archetype \in GrantArchetypes, components \in GrantRequests,
          build \in Builds :
           /\ World_lock_has_all(components, archetype, 1, 1)
           /\ \E vec \in {World_lock_granted(components, archetype, 1, 1)} :
                  granted = [archetype |-> archetype, components |-> components,
                             build |-> build, len |-> Len(vec),
                             cells |-> vec \o [i \in 1..(Len(archetype) - Len(vec)) |-> None],
                             panicked |-> FALSE,
                             last |-> [op |-> "lock"]]
    /\ refs = <<>>
    /\ lock = [state |-> 0] /\ tasks = <<>>

GrantFrame == UNCHANGED <<schedVars, accVars, worldVars, entVars, storeVars, syncVars, lock, tasks>>

\* granted.get_unchecked(index).get(): the values a read of the cell can
\* give.  Past the vector it is whatever the memory there holds.
CellValues(index) ==
    IF granted.cells[index + 1] = None THEN 0..UsizeMax
    ELSE {granted.cells[index + 1]}

\* The references not yet dropped to a component.
RefsTo(id) == {i \in DOMAIN refs : refs[i].id = id}

\* A borrow call's common part: component_index, the debug assertion, the
\* read of the cell; then after[left] (None: the call returns None) is set
\* and the reference of `kind` returned.
Borrow(op, id, kind, after) ==
    /\ \E index \in {ArchetypeStorage_component_index(granted.archetype, id)} :
        IF index = None
        THEN /\ granted' = [granted EXCEPT !.last =
                    [op |-> op, id |-> id, kind |-> kind, ret |-> "None",
                     index |-> None, others |-> RefsTo(id)]]
             /\ UNCHANGED refs
        ELSE IF granted.build = "debug" /\ ~(granted.len > index)
        THEN /\ granted' = [granted EXCEPT !.panicked = TRUE, !.last =
                    [op |-> op, id |-> id, kind |-> kind, ret |-> "panic",
                     index |-> index, others |-> RefsTo(id)]]
             /\ UNCHANGED refs
        ELSE \E left \in CellValues(index) :
             IF after[left] = None
             THEN /\ granted' = [granted EXCEPT !.cells[index + 1] = left, !.last =
                         [op |-> op, id |-> id, kind |-> kind, ret |-> "None",
                          index |-> index, others |-> RefsTo(id)]]
                  /\ UNCHANGED refs
             ELSE /\ Len(refs) < MaxOps
                  /\ granted' = [granted EXCEPT !.cells[index + 1] = after[left], !.last =
                         [op |-> op, id |-> id, kind |-> kind, ret |-> "Some",
                          index |-> index, others |-> RefsTo(id)]]
                  /\ refs' = Append(refs, [id |-> id, kind |-> kind, unlock |-> index])
    /\ GrantFrame

\* The match of borrow_ref on the cell's value.
ArchetypeAccess_borrow_ref_match(left) == IF left = 0 THEN None ELSE left - 1

\* The match of borrow_mut on the cell's value.
ArchetypeAccess_borrow_mut_match(left) == IF left = UsizeMax THEN 0 ELSE None

\* The match of borrow_dyn on the cell's value and the kind.
ArchetypeAccess_borrow_dyn_match(left, kind) ==
    IF left = UsizeMax /\ kind = Mutable THEN 0
    ELSE IF left = 0 THEN None
    ELSE IF kind = Shared THEN left - 1
    ELSE None

\* ArchetypeAccess::borrow_ref::<T>().
BorrowRef(id) ==
    /\ ~granted.panicked
    /\ Borrow("borrow_ref", id, Shared,
           [left \in 0..UsizeMax |-> ArchetypeAccess_borrow_ref_match(left)])

\* ArchetypeAccess::borrow_mut::<T>().
BorrowMut(id) ==
    /\ ~granted.panicked
    /\ Borrow("borrow_mut", id, Mutable,
           [left \in 0..UsizeMax |-> ArchetypeAccess_borrow_mut_match(left)])

\* ArchetypeAccess::borrow_dyn(id, kind).
BorrowDyn(id, kind) ==
    /\ ~granted.panicked
    /\ Borrow("borrow_dyn", id, kind,
           [left \in 0..UsizeMax |-> ArchetypeAccess_borrow_dyn_match(left, kind)])

\* Drop of refs[i], an ArchetypeRef, an ArchetypeRefMut or an AccessDyn of
\* either kind: a shared one adds 1 (an overflow panics in a debug build and
\* wraps in a release build), a mutable one asserts 0 in a debug build and
\* stores usize::MAX.
DropRef(i) ==
    /\ ~granted.panicked
    /\ i \in DOMAIN refs
    /\ \E cell \in {granted.cells[refs[i].unlock + 1]} :
        \E fails \in {granted.build = "debug" /\
                          IF refs[i].kind = Shared THEN cell = UsizeMax ELSE cell # 0} :
           granted' = [granted EXCEPT
               !.panicked = fails,
               !.cells[refs[i].unlock + 1] =
                   IF fails THEN cell
                   ELSE IF refs[i].kind = Shared THEN (cell + 1) % Usize
                   ELSE UsizeMax,
               !.last = [op |-> "drop", id |-> refs[i].id, kind |-> refs[i].kind,
                         ret |-> IF fails THEN "panic" ELSE "()",
                         index |-> refs[i].unlock, others |-> RefsTo(refs[i].id) \ {i}]]
    /\ refs' = [j \in 1..(Len(refs) - 1) |-> IF j < i THEN refs[j] ELSE refs[j + 1]]
    /\ GrantFrame

GrantNext ==
    \/ \E id \in Components : BorrowRef(id)
    \/ \E id \in Components : BorrowMut(id)
    \/ \E id \in Components, kind \in AccessKind : BorrowDyn(id, kind)
    \/ \E i \in 1..MaxOps : DropRef(i)

InitGrants == GrantInit /\ SchedIdle /\ AccIdle /\ WorldIdle /\ EntIdle /\ StoreIdle /\ SyncIdle
SpecGrants == InitGrants /\ [][GrantNext]_vars

\* The value the cell of a component has while no reference is borrowed:
\* usize::MAX for a mutable grant, usize::MAX - 1 for a shared one, 0 for none.
InitialValue(id) ==
    IF KindGranted(granted.components, id) = Mutable THEN UsizeMax
    ELSE IF KindGranted(granted.components, id) = Shared THEN UsizeMax - 1
    ELSE 0

\* C34 (runtime grant counters): a mutable reference is never alive with
\* another reference to the same component; borrow_mut returns a reference
\* only for a component granted mutably that no reference is borrowed of; a
\* component granted shared or not at all has no mutable reference; no
\* borrow and no drop panics; and while no reference is alive the cell of
\* every component of the archetype is at its initial value.
C34_RuntimeGrantCounters ==
    /\ \A i, j \in DOMAIN refs :
           (i # j /\ refs[i].id = refs[j].id) => refs[i].kind # Mutable
    /\ (granted.last.op = "borrow_mut" /\ granted.last.ret = "Some") =>
           /\ KindGranted(granted.components, granted.last.id) = Mutable
           /\ granted.last.others = {}
    /\ \A i \in DOMAIN refs :
           refs[i].kind = Mutable => KindGranted(granted.components, refs[i].id) = Mutable
    /\ ~granted.panicked
    /\ (refs = <<>> /\ granted.last.op # "lock") =>
           \A k \in DOMAIN granted.archetype :
               granted.cells[k] = InitialValue(granted.archetype[k])

\* ------------------------------------------------------------------------
\* AsyncLock (src/src/util/async.rs): tasks that call try_lock_shared and
\* try_lock_mutable, poll the futures of lock_shared and lock_mutable, and
\* drop the guards, one access of `state` or of `wakers` at a time.
\* ------------------------------------------------------------------------

\* i64::MIN and the wrapping of an i64, at the width of the model.  No
\* behaviour of the model lets the counter wrap: that takes 2^63 failed
\* attempts while one guard is held.
I64Min == 0 - Usize
I64Wrap(x) == ((x - I64Min) % (2 * Usize)) + I64Min

\* A task's position: "idle", "shared" and "mutable" (it holds the guard),
\* "register" (its poll failed and has not pushed its waker yet),
\* "pending" (its poll returned Pending), "waking" (its drop is at the
\* loop over the wakers).
Task(pc, kind, woken) == [pc |-> pc, kind |-> kind, woken |-> woken]

\* AsyncLock::new(), and tasks that hold nothing.
LockInit ==
    /\ lock = [state |-> 0, wakers |-> <<>>, missed |-> FALSE, asserts |-> TRUE]
    /\ tasks = [t \in 1..MaxThreads |-> Task("idle", "none", FALSE)]
    /\ granted = [cells |-> <<>>] /\ refs = <<>>

LockFrame == UNCHANGED <<schedVars, accVars, worldVars, entVars, storeVars, syncVars, granted, refs>>

\* The failed attempts left before the model's counter would wrap.
CanAttempt == lock.state >= 0 \/ lock.state < I64Min + MaxOps

\* try_lock_shared: state.fetch_add(1, Acquire) and `state >= 0`.
AsyncLock_try_lock_shared(state) == state >= 0

\* try_lock_mutable: state.compare_exchange(0, i64::MIN), the new state.
AsyncLock_try_lock_mutable(state) == IF state = 0 THEN I64Min ELSE state

\* What the drop of a MutableGuard stores.
MutableGuard_drop_store_rest(state) == state - I64Min
MutableGuard_drop_store(state) == 0

\* A call of try_lock_shared by t, which then is at pc `miss` if it got None.
LockShared(t, miss) ==
    /\ CanAttempt
    /\ lock' = [lock EXCEPT !.state = I64Wrap(lock.state + 1),
                            !.missed = @ \/ ~AsyncLock_try_lock_shared(lock.state)]
    /\ tasks' = [tasks EXCEPT ![t] =
           IF AsyncLock_try_lock_shared(lock.state)
           THEN Task("shared", "none", FALSE)
           ELSE miss]
    /\ LockFrame

\* A call of try_lock_mutable by t, which then is at pc `miss` if it got None.
LockMutable(t, miss) ==
    /\ lock' = [lock EXCEPT !.state = AsyncLock_try_lock_mutable(lock.state)]
    /\ tasks' = [tasks EXCEPT ![t] =
           IF lock.state = 0 THEN Task("mutable", "none", FALSE) ELSE miss]
    /\ LockFrame

\* t calls AsyncLock::try_lock_shared.
TryLockShared(t) ==
    /\ tasks[t].pc = "idle"
    /\ LockShared(t, Task("idle", "none", FALSE))

\* t calls AsyncLock::try_lock_mutable.
TryLockMutable(t) ==
    /\ tasks[t].pc = "idle"
    /\ LockMutable(t, Task("idle", "none", FALSE))

\* A task the executor polls: one that awaits a new future, or one whose
\* waker was woken since its poll returned Pending.
Polled(t, kind) ==
    \/ tasks[t].pc = "idle"
    \/ tasks[t].pc = "pending" /\ tasks[t].woken /\ tasks[t].kind = kind

\* SharedLockFuture::poll by t, up to the result of try_lock_shared.
PollShared(t) ==
    /\ Polled(t, Shared)
    /\ LockShared(t, Task("register", Shared, FALSE))

\* MutableLockFuture::poll by t, up to the result of try_lock_mutable.
PollMutable(t) ==
    /\ Polled(t, Mutable)
    /\ LockMutable(t, Task("register", Mutable, FALSE))

\* The None branch of both polls: wakers.lock().push_back(waker), Pending.
Register(t) ==
    /\ tasks[t].pc = "register"
    /\ lock' = [lock EXCEPT !.wakers = Append(@, t)]
    /\ tasks' = [tasks EXCEPT ![t].pc = "pending"]
    /\ LockFrame

\* Drop of t's SharedGuard, up to the `if`: fetch_sub and the assertion.
DropShared(t) ==
    /\ tasks[t].pc = "shared"
    /\ lock' = [lock EXCEPT !.state = I64Wrap(lock.state - 1),
                            !.asserts = @ /\ lock.state > 0]
    /\ tasks' = [tasks EXCEPT ![t].pc = IF lock.state = 1 THEN "waking" ELSE "idle"]
    /\ LockFrame

\* Drop of t's MutableGuard, up to wakers.lock(): the assertion and the store.
DropMutable(t) ==
    /\ tasks[t].pc = "mutable"
    /\ lock' = [lock EXCEPT !.state = MutableGuard_drop_store(lock.state),
                            !.asserts = @ /\ lock.state < 0]
    /\ tasks' = [tasks EXCEPT ![t].pc = "waking"]
    /\ LockFrame

\* The loop of both drops, under the mutex of `wakers`: every waker in the
\* queue is popped and woken.
WakeAll(t) ==
    /\ tasks[t].pc = "waking"
    /\ lock' = [lock EXCEPT !.wakers = <<>>]
    /\ tasks' = [u \in DOMAIN tasks |->
           IF u = t THEN Task("idle", "none", FALSE)
           ELSE IF u \in Range(lock.wakers) THEN [tasks[u] EXCEPT !.woken = TRUE]
           ELSE tasks[u]]
    /\ LockFrame

LockNext ==
    \E t \in 1..MaxThreads :
        \/ TryLockShared(t)
        \/ TryLockMutable(t)
        \/ PollShared(t)
        \/ PollMutable(t)
        \/ Register(t)
        \/ DropShared(t)
        \/ DropMutable(t)
        \/ WakeAll(t)

InitLock == LockInit /\ SchedIdle /\ AccIdle /\ WorldIdle /\ EntIdle /\ StoreIdle /\ SyncIdle
SpecLock == InitLock /\ [][LockNext]_vars

\* A poll or a drop that has begun runs to its end, a task that holds a
\* guard drops it, and the executor polls a task whose waker was woken.
LockFairness ==
    \A t \in 1..MaxThreads :
        /\ WF_vars(Register(t))
        /\ WF_vars(DropShared(t))
        /\ WF_vars(DropMutable(t))
        /\ WF_vars(WakeAll(t))
        /\ WF_vars(tasks[t].pc = "pending" /\ (PollShared(t) \/ PollMutable(t)))
SpecLockLive == SpecLock /\ LockFairness

SharedGuards == {t \in DOMAIN tasks : tasks[t].pc = "shared"}
MutableGuards == {t \in DOMAIN tasks : tasks[t].pc = "mutable"}

\* C38 (AsyncLock mutual exclusion): a MutableGuard is alive with no other
\* MutableGuard and with no SharedGuard; while no guard is alive the state
\* is 0, whatever attempts have failed; and no assertion of a drop fails.
C38_MutualExclusion ==
    /\ Cardinality(MutableGuards) <= 1
    /\ MutableGuards # {} => SharedGuards = {}
    /\ (MutableGuards = {} /\ SharedGuards = {}) => lock.state = 0
    /\ MutableGuards = {} => lock.state = Cardinality(SharedGuards)
    /\ lock.asserts

\* A shared attempt has failed under a MutableGuard, that guard has been
\* dropped, a SharedGuard has been taken since and a task is still Pending.
C38_Witness ==
    /\ lock.missed /\ MutableGuards = {} /\ lock.state = 1
    /\ \E t \in DOMAIN tasks : tasks[t].pc = "shared"
    /\ \E t \in DOMAIN tasks : tasks[t].pc = "pending"

\* C39 (no lost wake-up): a task whose poll returned Pending is woken
\* eventually, when every holder drops its guard.
C39_NoLostWakeup ==
    \A t \in 1..MaxThreads :
        (tasks[t].pc = "pending" /\ ~tasks[t].woken) ~> (tasks[t].pc # "pending" \/ tasks[t].woken)

\* ------------------------------------------------------------------------
\* The chunk layout of an archetype: ArchetypeInfo::new
\* (src/src/archetype/mod.rs) and Archetype::new with chunk_capacity
\* (src/src/archetype/archetype.rs), applied to lists of component layouts.
\* ------------------------------------------------------------------------
ChunkLowerLimit == 512     \* chunk_lower_limit(), ALEX_CHUNK_LOWER_LIMIT unset
ChunkUpperLimit == 65536   \* chunk_upper_limit(), ALEX_CHUNK_UPPER_LIMIT unset
SizeOfEntity == 16         \* size_of::<Entity>(): a u64 generation and a usize
AlignOfEntity == 8         \* align_of::<Entity>()
UsizeWidth == 64           \* 0usize.trailing_zeros()
ChunkCapacityBase == 4095  \* BASE of chunk_capacity

\* CACHE_LINE_SIZE_HINT: the line size cpuid reports, or 512.
CacheLineSizes == {64, 128, 512}

\* Layout::new::<T>() of the component types the lists are made of, as
\* <<size, align>>; a list is in the order of the TypeIds, which no layout
\* has a part in (Ord for ComponentInfo compares type_id alone).
Layout(size, align) == [size |-> size, align |-> align]
ComponentLayouts ==
    {Layout(0, 1), Layout(1, 1), Layout(4, 4), Layout(8, 8), Layout(128, 8),
     Layout(ChunkUpperLimit, 1)}
RECURSIVE LayoutLists(_)
LayoutLists(n) ==
    IF n = 0 THEN {<<>>}
    ELSE LayoutLists(n - 1)
             \cup {Append(l, c) : l \in {l \in LayoutLists(n - 1) : Len(l) = n - 1},
                                  c \in ComponentLayouts}

\* usize::next_power_of_two and usize::trailing_zeros.
RECURSIVE next_power_of_two_from(_, _)
next_power_of_two_from(n, p) == IF p >= n THEN p ELSE next_power_of_two_from(n, 2 * p)
next_power_of_two(n) == next_power_of_two_from(n, 1)
RECURSIVE trailing_zeros(_)
trailing_zeros(n) ==
    IF n = 0 THEN UsizeWidth
    ELSE IF n % 2 = 1 THEN 0
    ELSE 1 + trailing_zeros(n \div 2)

\* The sum of the sizes of components[1..n].
RECURSIVE SizeSum(_, _)
SizeSum(components, n) ==
    IF n = 0 THEN 0 ELSE SizeSum(components, n - 1) + components[n].size

\* The least and the greatest of a non-empty set of numbers.
Least(set) == CHOOSE x \in set : \A y \in set : x <= y
Greatest(set) == CHOOSE x \in set : \A y \in set : y <= x

\* min_align of ArchetypeInfo::new: the fold of BitOr over align - 1, plus
\* 1; every align is a power of two, so the fold gives the greatest.
ArchetypeInfo_min_align(components) ==
    Greatest({components[i].align - 1 : i \in DOMAIN components}
                 \cup {AlignOfEntity - 1}) + 1

\* chunk_hint of ArchetypeInfo::new.
ArchetypeInfo_chunk_hint(components, cache_line) ==
    next_power_of_two(
        Max2(Min2(Max2(cache_line, 1), ChunkUpperLimit),
             ArchetypeInfo_min_align(components)))

\* size_gcd of ArchetypeInfo::new.
ArchetypeInfo_size_gcd(components, cache_line) ==
    2 ^ Least({trailing_zeros(components[i].size) : i \in DOMAIN components}
                  \cup {trailing_zeros(SizeOfEntity),
                        trailing_zeros(ArchetypeInfo_chunk_hint(components, cache_line))})

\* chunk_capacity of ArchetypeInfo::new.
ArchetypeInfo_chunk_capacity(components, cache_line) ==
    Max2(next_power_of_two(ChunkLowerLimit),
         Max2(ArchetypeInfo_chunk_hint(components, cache_line)
                  \div ArchetypeInfo_size_gcd(components, cache_line), 1))

\* ArchetypeInfo::new(components) with its chunk layout, in a build: the
\* assertion of the entity size, the layout, and the columns with the
\* assertion of `offset` (a debug assertion) on the way.
ArchetypeInfo_new_layout(components, cache_line, build) ==
    LET entity_size == SizeSum(components, Len(components)) + SizeOfEntity
        chunk_capacity == ArchetypeInfo_chunk_capacity(components, cache_line)
        offset(i) == SizeOfUsize + SizeSum(components, i - 1)
    IN IF ~(entity_size <= ChunkUpperLimit)
       THEN [outcome |-> "Too many large components", entity_size |-> entity_size]
       ELSE IF build = "debug"
                 /\ \E i \in DOMAIN components : offset(i) % components[i].align # 0
       THEN [outcome |-> "Offset must be properly aligned", entity_size |-> entity_size]
       ELSE [outcome |-> "ok", entity_size |-> entity_size,
             chunk_capacity |-> chunk_capacity,
             chunk_size |-> chunk_capacity * entity_size,
             chunk_align |-> ArchetypeInfo_chunk_hint(components, cache_line),
             offsets |-> [i \in DOMAIN components |-> chunk_capacity * offset(i)]]

\* chunk_capacity(entity_size, entity_align) of archetype/archetype.rs;
\* `& !(entity_align - 1)` rounds down to a multiple of the power of two.
\* Every call has entity_size >= size_of::<EntityIndex>().
chunk_capacity(entity_size, entity_align) ==
    LET sum == (ChunkCapacityBase \div entity_size) + entity_align
    IN sum - (sum % entity_align)

\* Archetype::new(components) of archetype/archetype.rs, the components in
\* the order sort_unstable leaves them in.
archetype_Archetype_new(components) ==
    LET entity_align == Greatest({components[i].align : i \in DOMAIN components} \cup {1})
        entity_size == SizeOfUsize + SizeSum(components, Len(components))
        capacity == chunk_capacity(entity_size, entity_align)
    IN [outcome |-> "ok", entity_size |-> entity_size,
        chunk_capacity |-> capacity,
        chunk_size |-> capacity * entity_size,
        chunk_align |-> entity_align,
        offsets |-> [i \in DOMAIN components |->
                        capacity * (SizeOfUsize + SizeSum(components, i - 1))]]

LayoutInit ==
    lastop \in {[op |-> "ArchetypeInfo::new", applied |-> FALSE, components |-> l,
                 cache_line |-> h, build |-> b] :
                    l \in LayoutLists(MaxLen), h \in CacheLineSizes, b \in Builds}
               \cup {[op |-> "Archetype::new", applied |-> FALSE, components |-> l] :
                        l \in LayoutLists(MaxLen)}

\* ArchetypeInfo::new(&components)
ArchetypeInfoNew ==
    /\ lastop.op = "ArchetypeInfo::new" /\ ~lastop.applied
    /\ lastop' = [lastop EXCEPT !.applied = TRUE] @@
           [result |-> ArchetypeInfo_new_layout(lastop.components, lastop.cache_line,
                                                lastop.build)]
    /\ UNCHANGED <<schedVars, tokens, issued, reborrows, worldVars, entVars, storeVars, syncVars, asyncVars>>

\* Archetype::new(components)
ArchetypeNew ==
    /\ lastop.op = "Archetype::new" /\ ~lastop.applied
    /\ lastop' = [lastop EXCEPT !.applied = TRUE] @@
           [result |-> archetype_Archetype_new(lastop.components)]
    /\ UNCHANGED <<schedVars, tokens, issued, reborrows, worldVars, entVars, storeVars, syncVars, asyncVars>>

LayoutNext == ArchetypeInfoNew \/ ArchetypeNew

InitLayout ==
    /\ LayoutInit /\ tokens = <<>> /\ issued = <<>> /\ reborrows = <<>>
    /\ SchedIdle /\ WorldIdle /\ EntIdle /\ StoreIdle /\ SyncIdle /\ AsyncIdle
SpecLayout == InitLayout /\ [][LayoutNext]_vars

\* C35 (chunk size limits): a construction that succeeds gives a chunk
\* capacity of at least 1 and a chunk size, the capacity times the entity
\* size, between the lower and the upper limit; and a construction whose
\* entity size exceeds the upper limit fails.
C35_ChunkSizeLimits ==
    (lastop.op \in {"ArchetypeInfo::new", "Archetype::new"} /\ lastop.applied) =>
        /\ lastop.result.outcome = "ok" =>
               /\ lastop.result.chunk_capacity >= 1
               /\ lastop.result.chunk_size
                      = lastop.result.chunk_capacity * lastop.result.entity_size
               /\ lastop.result.chunk_size >= ChunkLowerLimit
               /\ lastop.result.chunk_size <= ChunkUpperLimit
        /\ lastop.result.entity_size > ChunkUpperLimit => lastop.result.outcome # "ok"

\* C36 (column layout): ArchetypeInfo::new of a sorted list whose entity
\* size is within the upper limit does not fail the assertion 'Offset must
\* be properly aligned'; the columns of the chunk it lays out are disjoint
\* in pairs, every column ends within the chunk, and every column's offset
\* is a multiple of its component's alignment.
C36_ColumnLayout ==
    (lastop.op = "ArchetypeInfo::new" /\ lastop.applied
         /\ lastop.result.entity_size <= ChunkUpperLimit) =>
        /\ lastop.result.outcome = "ok"
        /\ \A i \in DOMAIN lastop.components :
               /\ lastop.result.offsets[i] % lastop.components[i].align = 0
               /\ lastop.result.offsets[i]
                      + lastop.result.chunk_capacity * lastop.components[i].size
                      <= lastop.result.chunk_size
               /\ lastop.result.offsets[i] >= lastop.result.chunk_capacity * SizeOfUsize
               /\ \A j \in DOMAIN lastop.components :
                      i < j => lastop.result.offsets[i]
                                   + lastop.result.chunk_capacity * lastop.components[i].size
                                   <= lastop.result.offsets[j]

\* ------------------------------------------------------------------------
\* ChunkSizes (src/src/archetype/iterator.rs) as a double-ended iterator:
\* its methods applied to iterators of every length a usize of the model's
\* width holds.
\* ------------------------------------------------------------------------
ChunkSizes_new(chunk, len) == [chunk |-> chunk, len |-> len]
Item(it, ret) == [it |-> it, ret |-> ret]

\* Iterator::next
ChunkSizes_next(it) ==
    IF it.len = 0 THEN Item(it, None)
    ELSE Item([it EXCEPT !.len = @ - Min2(it.len, it.chunk)], Min2(it.len, it.chunk))

\* Iterator::last
ChunkSizes_last(it) ==
    IF it.len = 0 THEN None ELSE ((it.len - 1) % it.chunk) + 1

\* Iterator::nth, with n.overflowing_mul(self.chunk)
ChunkSizes_nth(it, n) ==
    LET offset == (n * it.chunk) % Usize
        overflow == n * it.chunk >= Usize
    IN IF it.len <= offset \/ overflow THEN Item([it EXCEPT !.len = 0], None)
       ELSE ChunkSizes_next([it EXCEPT !.len = @ - offset])

\* DoubleEndedIterator::next_back
ChunkSizes_next_back(it) ==
    IF it.len = 0 THEN Item(it, None)
    ELSE Item([it EXCEPT !.len = @ - (((it.len - 1) % it.chunk) + 1)],
              ((it.len - 1) % it.chunk) + 1)

\* DoubleEndedIterator::nth_back
ChunkSizes_nth_back(it, n) ==
    LET offset == (n * it.chunk) % Usize
        overflow == n * it.chunk >= Usize
    IN IF it.len <= offset \/ overflow THEN Item([it EXCEPT !.len = 0], None)
       ELSE ChunkSizes_next_back([it EXCEPT !.len = @ - offset])

\* ExactSizeIterator::len: the sum overflows with a panic in a debug build
\* and wraps in a release build.
ChunkSizes_len(it, build) ==
    IF build = "debug" /\ it.len + it.chunk - 1 >= Usize
    THEN [panic |-> "attempt to add with overflow"]
    ELSE [ret |-> ((it.len + it.chunk - 1) % Usize) \div it.chunk]

\* next() called k times, and next_back() called k times.
RECURSIVE NextTimes(_, _)
NextTimes(it, k) ==
    IF k = 1 THEN ChunkSizes_next(it) ELSE ChunkSizes_next(NextTimes(it, k - 1).it)
RECURSIVE NextBackTimes(_, _)
NextBackTimes(it, k) ==
    IF k = 1 THEN ChunkSizes_next_back(it)
    ELSE ChunkSizes_next_back(NextBackTimes(it, k - 1).it)

\* The items next() yields until it returns None.
RECURSIVE NextItems(_)
NextItems(it) ==
    IF ChunkSizes_next(it).ret = None THEN <<>>
    ELSE <<ChunkSizes_next(it).ret>> \o NextItems(ChunkSizes_next(it).it)

\* The items yielded until None when step i takes from the front if bit i of
\* `ends` is set and from the back if not.
RECURSIVE BothEnds(_, _)
BothEnds(it, ends) ==
    LET item == IF ends % 2 = 1 THEN ChunkSizes_next(it) ELSE ChunkSizes_next_back(it)
    IN IF item.ret = None THEN <<>>
       ELSE <<item.ret>> \o BothEnds(item.it, ends \div 2)

RECURSIVE Sum(_)
Sum(items) == IF items = <<>> THEN 0 ELSE Head(items) + Sum(Tail(items))

ChunkSizesInit ==
    lastop \in {[op |-> op, applied |-> FALSE, it |-> ChunkSizes_new(chunk, len),
                 n |-> n, build |-> build] :
                    op \in {"nth", "nth_back", "last", "len", "both_ends"},
                    chunk \in 1..(MaxCapacity + 1), len \in 0..UsizeMax,
                    n \in 0..UsizeMax, build \in Builds}

ChunkSizesApply(op, result) ==
    /\ lastop.op = op /\ ~lastop.applied
    /\ lastop' = [lastop EXCEPT !.applied = TRUE] @@ result
    /\ UNCHANGED <<schedVars, tokens, issued, reborrows, worldVars, entVars, storeVars, syncVars, asyncVars>>

\* it.nth(n), and next() n + 1 times on a copy
ChunkSizesNth ==
    /\ lastop.op = "nth"
    /\ ChunkSizesApply("nth", [result |-> ChunkSizes_nth(lastop.it, lastop.n),
                               stepped |-> NextTimes(lastop.it, lastop.n + 1)])

\* it.nth_back(n), and next_back() n + 1 times on a copy
ChunkSizesNthBack ==
    /\ lastop.op = "nth_back"
    /\ ChunkSizesApply("nth_back", [result |-> ChunkSizes_nth_back(lastop.it, lastop.n),
                                    stepped |-> NextBackTimes(lastop.it, lastop.n + 1)])

\* it.last(), and the items of next() on a copy
ChunkSizesLast ==
    /\ lastop.op = "last"
    /\ ChunkSizesApply("last", [result |-> ChunkSizes_last(lastop.it),
                                items |-> NextItems(lastop.it)])

\* it.len(), and the items of next() on a copy
ChunkSizesLen ==
    /\ lastop.op = "len"
    /\ ChunkSizesApply("len", [result |-> ChunkSizes_len(lastop.it, lastop.build),
                               items |-> NextItems(lastop.it)])

\* next() and next_back() in the order of the bits of n, until None
ChunkSizesBothEnds ==
    /\ lastop.op = "both_ends"
    /\ ChunkSizesApply("both_ends", [items |-> BothEnds(lastop.it, lastop.n)])

ChunkSizesNext ==
    \/ ChunkSizesNth
    \/ ChunkSizesNthBack
    \/ ChunkSizesLast
    \/ ChunkSizesLen
    \/ ChunkSizesBothEnds

InitChunkSizes ==
    /\ ChunkSizesInit /\ tokens = <<>> /\ issued = <<>> /\ reborrows = <<>>
    /\ SchedIdle /\ WorldIdle /\ EntIdle /\ StoreIdle /\ SyncIdle /\ AsyncIdle
SpecChunkSizes == InitChunkSizes /\ [][ChunkSizesNext]_vars

\* C40 (ChunkSizes is a consistent double-ended iterator): nth(n) returns
\* what the last of n + 1 calls of next() returns and leaves the same
\* state; nth_back(n) does so for n + 1 calls of next_back(); last() is the
\* last item of next(), or None; len() is the number of items left; and the
\* items taken from both ends in any order sum up to the length.
C40_ChunkSizesConsistent ==
    lastop.applied =>
        /\ lastop.op \in {"nth", "nth_back"} => lastop.result = lastop.stepped
        /\ lastop.op = "last" =>
               lastop.result = IF lastop.items = <<>> THEN None
                               ELSE lastop.items[Len(lastop.items)]
        /\ lastop.op = "len" => lastop.result = [ret |-> Len(lastop.items)]
        /\ lastop.op = "both_ends" => Sum(lastop.items) = lastop.it.len

\* The component values after the sequential execute has run the first k
\* systems of the schedule on the initial world.
RECURSIVE SequentialCells(_)
SequentialCells(k) ==
    IF k = 0 THEN [c \in DOMAIN FixedCells |-> InitialCell]
    ELSE System_run(k, WorldAccess_new(systems[k]), SequentialCells(k - 1))

\* C37 (parallel equals sequential): when the parallel execute has
\* returned, the component values of the world are those the sequential
\* execute of the same schedule leaves; and so they are when the
\* sequential execute has returned.
C37_ParallelEqualsSequential ==
    phase \in {"returned", "executed"} => cells = SequentialCells(Len(systems))

=============================================================================
